---- MODULE Spec2Model ----
(***************************************************************************)
(* A model of kafka-avro's schema catalog (lib/schema-registry.js), its    *)
(* lifecycle (lib/kafka-avro.js), its wire codec (lib/magic-byte.js) and   *)
(* its subject naming strategies (lib/subject-strategy.js).                *)
(*                                                                         *)
(* The catalog runs on one JavaScript thread: a step of the model is one   *)
(* turn of the event loop (a call by the user, an HTTP response arriving   *)
(* with every promise callback it triggers, or a timer firing).            *)
(***************************************************************************)
EXTENDS Integers, Sequences, FiniteSets, TLC

VARIABLES
  opts,           \* the constructor's options (fetchAllVersions, selectedTopics, ...)
  nver,           \* the registry: how many versions each subject has
  sr,             \* the SchemaRegistry instance's fields
  refreshHandle,  \* sr._refreshHandle: "none", "active" or "cleared"
  run,            \* the _fetchSchemas runs, by number (1 is init()'s)
  nruns,          \* how many runs were started
  disposed,       \* dispose() has resolved
  faults,         \* the transient request failures so far: <<run, stage, how>>
  pool,           \* the request pools of the runs, counted (many subjects)
  codec,          \* one encode and decode of the wire codec
  naming,         \* the subject naming strategies of one KafkaAvro instance
  client          \* one produce or one consumed message through the wrappers

catVars == <<opts, nver, sr, refreshHandle, run, nruns, disposed, faults>>
vars == <<opts, nver, sr, refreshHandle, run, nruns, disposed, faults, pool, codec, naming, client>>

----------------------------------------------------------------------------
(* Bounds of the model *)

MaxVersions == 2
MaxRuns == 2
MaxFaults == 1

(* bluebird's {concurrency: 10} *)
Concurrency == 10

RunIds == 1..MaxRuns

----------------------------------------------------------------------------
(* The registry (the REST surface the catalog consumes) *)

Subjects == <<"a-value", "b-value">>
SubjectSet == {Subjects[i] : i \in DOMAIN Subjects}

SubjectIndex(s) == CHOOSE i \in DOMAIN Subjects : Subjects[i] = s

\* The registry-wide id of version v of subject s.
SchemaId(s, v) == 10 * SubjectIndex(s) + v

\* The serialized schema of version v of subject s; a malformed one does not parse.
SchemaBody(s, v) ==
  [def |-> SchemaId(s, v), wellFormed |-> SchemaId(s, v) \notin opts.malformed]

\* GET /subjects/{s}/versions/{v}: {subject, version, id, schema}
VersionResponse(s, v) ==
  [subject |-> s, version |-> v, id |-> SchemaId(s, v), schema |-> SchemaBody(s, v)]

\* GET /subjects: the subjects that have a version, in listing order
SubjectsResponse == SelectSeq(Subjects, LAMBDA s : nver[s] > 0)

\* GET /subjects/{s}/versions: the version numbers, ascending
VersionsResponse(s) == [v \in 1..nver[s] |-> v]

\* An axios error: err.response is set when the registry answered with an
\* error status, and is missing when no answer came (network, DNS, TLS).
HttpError(status) == [hasResponse |-> TRUE, status |-> status]
NetError == [hasResponse |-> FALSE, status |-> 0]

----------------------------------------------------------------------------
(* JavaScript values *)

EmptyDict == [k \in {} |-> 0]
Put(d, k, v) == [x \in (DOMAIN d) \cup {k} |-> IF x = k THEN v ELSE d[x]]

NoList == [set |-> FALSE, list |-> << >>]
List(l) == [set |-> TRUE, list |-> l]

\* What a handler does: return a value, return null, or throw.
Return(v) == [kind |-> "value", v |-> v]
ReturnNull == [kind |-> "null"]
Throw == [kind |-> "throw"]

\* A slot of a map's values: the pending promise, or what it settled to.
Pending == [kind |-> "pending"]

----------------------------------------------------------------------------
(* SchemaRegistry: parsing and registering *)

\* opts.parseOptions, the options of avro.parse: with a `registry` of the
\* user's (the names of the types that avsc has registered in it), or
\* without one. wrapUnions and the other options do not change what parses.
ParseOptions(registry) == [hasRegistry |-> TRUE, registry |-> registry]
NoParseOptions == [hasRegistry |-> FALSE, registry |-> {}]

NewRegistry ==
  [schemaTopics |-> NoList, schemas |-> EmptyDict, schemaMeta |-> EmptyDict,
   schemaTypeById |-> EmptyDict, schemaIds |-> EmptyDict, parseOptions |-> NoParseOptions]

\* The name of the record type that a schema declares: the versions of one
\* subject declare the same name.
TypeName(schema) == schema.def \div 10

\* _.extend({}, parseOptions): a new object with the same properties. Its
\* registry is the registry object of the options when they have one;
\* avsc makes a new one for the copy when they have none.
deepCopyAvscParseOptionsToAvoidDuplicateSchemaException(parseOptions) ==
  [fresh |-> ~parseOptions.hasRegistry, registry |-> parseOptions.registry]

\* avro.parse(schema, options) adds the name of the type to options.registry,
\* and throws on a name that is there already ("duplicate type name"), as
\* on a malformed schema.
Parses(schema, options) ==
  schema.wellFormed /\ TypeName(schema) \notin options.registry

\* typeFromSchemaResponse: the parsed type, unless avro.parse throws
typeFromSchemaResponse(schema, parseOptions) ==
  IF Parses(schema, deepCopyAvscParseOptionsToAvoidDuplicateSchemaException(parseOptions))
  THEN Return([def |-> schema.def]) ELSE Throw

\* this.parseOptions after typeFromSchemaResponse: what avsc added to the
\* registry of the copy shows in the options when the copy shares it.
Parsed(schema, parseOptions) ==
  LET options == deepCopyAvscParseOptionsToAvoidDuplicateSchemaException(parseOptions)
  IN IF ~options.fresh /\ Parses(schema, options)
     THEN [parseOptions EXCEPT !.registry = @ \cup {TypeName(schema)}]
     ELSE parseOptions

registerSchemaLatestAs(cat, schemaObj) ==
  LET p == typeFromSchemaResponse(schemaObj.responseRaw.schema, cat.parseOptions)
      type == IF p.kind = "throw" THEN [def |-> 0] ELSE p.v
  IN [cat EXCEPT
        !.schemaTypeById = Put(@, schemaObj.responseRaw.id, type),
        !.schemas = Put(@, schemaObj.schemaTopicRaw, type),
        !.schemaIds = Put(@, schemaObj.schemaTopicRaw, schemaObj.responseRaw.id),
        !.schemaMeta = Put(@, schemaObj.schemaTopicRaw, schemaObj.responseRaw),
        !.parseOptions = Parsed(schemaObj.responseRaw.schema, @)]

registerSchemaLatestStale(cat, schemaObj) ==
  LET p == typeFromSchemaResponse(schemaObj.responseRaw.schema, cat.parseOptions)
  IN IF p.kind = "throw"
     THEN cat
     ELSE [cat EXCEPT
             !.schemaTypeById = Put(@, schemaObj.responseRaw.id, p.v),
             !.schemas = Put(@, schemaObj.schemaTopicRaw, p.v),
             !.schemaIds = IF schemaObj.schemaTopicRaw \in DOMAIN @ THEN @
                           ELSE Put(@, schemaObj.schemaTopicRaw, schemaObj.responseRaw.id),
             !.schemaMeta = Put(@, schemaObj.schemaTopicRaw, schemaObj.responseRaw),
             !.parseOptions = Parsed(schemaObj.responseRaw.schema, @)]

registerSchemaLatest(cat, schemaObj) ==
  LET p == typeFromSchemaResponse(schemaObj.responseRaw.schema, cat.parseOptions)
  IN IF p.kind = "throw"
     THEN cat
     ELSE [cat EXCEPT
             !.schemaTypeById = Put(@, schemaObj.responseRaw.id, p.v),
             !.schemas = Put(@, schemaObj.schemaTopicRaw, p.v),
             !.schemaIds = Put(@, schemaObj.schemaTopicRaw, schemaObj.responseRaw.id),
             !.schemaMeta = Put(@, schemaObj.schemaTopicRaw, schemaObj.responseRaw),
             !.parseOptions = Parsed(schemaObj.responseRaw.schema, @)]

registerSchemaAs(cat, schemaObj) == registerSchemaLatest(cat, schemaObj)

registerSchema(cat, schemaObj) ==
  LET p == typeFromSchemaResponse(schemaObj.responseRaw.schema, cat.parseOptions)
  IN IF p.kind = "throw"
     THEN cat
     ELSE [cat EXCEPT !.schemaTypeById = Put(@, schemaObj.responseRaw.id, p.v),
                      !.parseOptions = Parsed(schemaObj.responseRaw.schema, @)]

\* .map(this._registerSchemaLatest): the mapper is synchronous, so the whole
\* array is registered, in array order, within one turn.
RECURSIVE MapRegisterLatest(_, _)
MapRegisterLatest(cat, objs) ==
  IF objs = << >> THEN cat
  ELSE MapRegisterLatest(registerSchemaLatest(cat, Head(objs)), Tail(objs))

RECURSIVE MapRegister(_, _)
MapRegister(cat, objs) ==
  IF objs = << >> THEN cat
  ELSE MapRegister(registerSchema(cat, Head(objs)), Tail(objs))

----------------------------------------------------------------------------
(* SchemaRegistry: error handlers *)

suppressAxiosErrorAs(err) == ReturnNull

suppressAxiosErrorThrows(err) == Throw

suppressAxiosError(err) ==
  IF ~err.hasResponse THEN Throw ELSE ReturnNull

handleAxiosError(err) == Throw

----------------------------------------------------------------------------
(* bluebird's Promise.map over the array of one stage *)

IdleRun == [stage |-> "idle", items |-> << >>, vals |-> << >>, queue |-> << >>, wrote |-> 0]

RequestStages == {"topics", "latest", "schema", "versions", "vschema"}

Range(q) == {q[i] : i \in DOMAIN q}

\* The items whose request is in flight: started, and not settled yet.
InFlight(rr) == {i \in DOMAIN rr.vals : rr.vals[i] = Pending /\ i \notin Range(rr.queue)}

\* The mapper is called for the first `Concurrency` items; the others queue.
StartMap(stage, items) ==
  [stage |-> stage, items |-> items,
   vals |-> [i \in DOMAIN items |-> Pending],
   queue |-> [k \in 1..(IF Len(items) > Concurrency THEN Len(items) - Concurrency ELSE 0)
                |-> Concurrency + k],
   wrote |-> 0]

\* A settled mapper stores its result at the slot of its own item.
MapSettleAs(vals, i, res) ==
  LET k == Cardinality({j \in DOMAIN vals : vals[j] # Pending}) + 1
  IN [vals EXCEPT ![k] = res]

MapSettle(vals, i, res) == [vals EXCEPT ![i] = res]

\* _drainQueue: one settled request lets the last queued item start.
DrainQueue(queue) == IF queue = << >> THEN queue ELSE SubSeq(queue, 1, Len(queue) - 1)

\* The map's promise resolves when every slot is settled.
MapDone(vals) == \A i \in DOMAIN vals : vals[i] # Pending

\* .filter(Boolean), then the values
Filtered(vals) ==
  LET kept == SelectSeq(vals, LAMBDA x : x.kind = "value")
  IN [i \in DOMAIN kept |-> kept[i].v]

\* _flatenResults
RECURSIVE flatenResults(_)
flatenResults(results) ==
  IF results = << >> THEN << >> ELSE Head(results) \o flatenResults(Tail(results))

Finished(stage) == [IdleRun EXCEPT !.stage = stage]

----------------------------------------------------------------------------
(* SchemaRegistry: the requests and what their handlers return *)

Ok(data) == [ok |-> TRUE, data |-> data]
Failed(err) == [ok |-> FALSE, err |-> err]

\* The number of versions the registry has of a name: none of a name that
\* is no subject.
Versions(s) == IF s \in SubjectSet THEN nver[s] ELSE 0

\* What the registry answers to the request of an item, or how the request
\* fails: the registry's own answer, a 500 status, or no answer at all.
Response(stage, item, how) ==
  IF how = "http500" THEN Failed(HttpError(500))
  ELSE IF how = "net" THEN Failed(NetError)
  ELSE IF stage = "topics" THEN Ok(SubjectsResponse)
  ELSE IF stage = "latest"
    THEN IF Versions(item) = 0 THEN Failed(HttpError(404))
         ELSE Ok(VersionResponse(item, nver[item]))
  ELSE IF stage = "versions"
    THEN IF Versions(item) = 0 THEN Failed(HttpError(404))
         ELSE Ok(VersionsResponse(item))
  ELSE IF item.version \in 1..nver[item.schemaTopic]
    THEN Ok(VersionResponse(item.schemaTopic, item.version))
    ELSE Failed(HttpError(404))

fetchAllSchemaTopics(resp) ==
  IF resp.ok THEN Return(resp.data) ELSE suppressAxiosError(resp.err)

fetchLatestVersion(schemaTopic, resp) ==
  IF resp.ok
  THEN Return([version |-> resp.data.version, schemaTopic |-> schemaTopic])
  ELSE suppressAxiosError(resp.err)

fetchAllSchemaVersions(schemaTopic, resp) ==
  IF resp.ok
  THEN Return([k \in DOMAIN resp.data |->
                 [version |-> resp.data[k], schemaTopic |-> schemaTopic]])
  ELSE suppressAxiosError(resp.err)

\* (schemaType and topic, split off the subject name, are left out: only
\* the consumer and producer read them)
fetchSchema(topicMeta, resp) ==
  IF resp.ok
  THEN Return([version |-> topicMeta.version, responseRaw |-> resp.data,
               schemaTopicRaw |-> topicMeta.schemaTopic])
  ELSE handleAxiosError(resp.err)

Mapper(stage, item, resp) ==
  CASE stage = "topics" -> fetchAllSchemaTopics(resp)
    [] stage = "latest" -> fetchLatestVersion(item, resp)
    [] stage = "versions" -> fetchAllSchemaVersions(item, resp)
    [] OTHER -> fetchSchema(item, resp)

----------------------------------------------------------------------------
(* SchemaRegistry: the chain of _fetchSchemas, from its end to its start.  *)
(* Each operator gives the run's next state and the instance's fields.     *)

Step(rr, cat) == [run |-> rr, sr |-> cat]

\* .map(this._registerSchema).then(concat)
afterVersionSchemas(cat, objs) == Step(Finished("resolved"), MapRegister(cat, objs))

\* .filter(Boolean).then(this._flatenResults).map(this._fetchSchema, ...)
afterVersions(cat, vals) ==
  LET metas == flatenResults(Filtered(vals))
  IN IF metas = << >> THEN afterVersionSchemas(cat, << >>)
     ELSE Step(StartMap("vschema", metas), cat)

checkForAllVersionsAs(cat) == Step(Finished("resolved"), cat)

checkForAllVersions(cat) ==
  IF ~opts.fetchAllVersions THEN Step(Finished("resolved"), cat)
  ELSE IF ~cat.schemaTopics.set THEN Step(Finished("rejected"), cat)
  ELSE IF cat.schemaTopics.list = << >> THEN afterVersions(cat, << >>)
  ELSE Step(StartMap("versions", cat.schemaTopics.list), cat)

\* .map(this._registerSchemaLatest).then(this._checkForAllVersions)
afterSchemas(cat, objs) == checkForAllVersions(MapRegisterLatest(cat, objs))

\* .filter(Boolean).map(this._fetchSchema, {concurrency: 10})
afterLatest(cat, vals) ==
  LET metas == Filtered(vals)
  IN IF metas = << >> THEN afterSchemas(cat, << >>)
     ELSE Step(StartMap("schema", metas), cat)

storeTopicsAs(cat, res) ==
  IF res.kind = "null"
  THEN afterLatest([cat EXCEPT !.schemaTopics = List(<< >>)], << >>)
  ELSE LET cat2 == [cat EXCEPT !.schemaTopics = List(res.v)]
       IN IF res.v = << >> THEN afterLatest(cat2, << >>)
          ELSE Step(StartMap("latest", res.v), cat2)

\* .then(this._storeTopics).map(this._fetchLatestVersion, {concurrency: 10});
\* a suppressed error of the subject listing stores null, which .map rejects.
storeTopics(cat, res) ==
  IF res.kind = "null"
  THEN Step(Finished("rejected"), [cat EXCEPT !.schemaTopics = NoList])
  ELSE LET cat2 == [cat EXCEPT !.schemaTopics = List(res.v)]
       IN IF res.v = << >> THEN afterLatest(cat2, << >>)
          ELSE Step(StartMap("latest", res.v), cat2)

processSelectedTopics == Return(opts.selectedTopics.list)

\* _fetchSchemas: _fetchTopics and what follows without waiting
fetchSchemas(cat) ==
  IF opts.selectedTopics.set
  THEN storeTopics(cat, processSelectedTopics)
  ELSE Step(StartMap("topics", <<"subjects">>), cat)

\* What follows the last settled request of a stage.
Continue(stage, cat, vals) ==
  CASE stage = "topics" -> storeTopics(cat, vals[1])
    [] stage = "latest" -> afterLatest(cat, vals)
    [] stage = "schema" -> afterSchemas(cat, Filtered(vals))
    [] stage = "versions" -> afterVersions(cat, vals)
    [] OTHER -> afterVersionSchemas(cat, Filtered(vals))

\* The lookup indices of the instance.
Indices(cat) == <<cat.schemaTypeById, cat.schemas, cat.schemaIds, cat.schemaMeta>>

----------------------------------------------------------------------------
(* Actions *)

\* The state after `new KafkaAvro(options)`, for options drawn from a set.
InitCatalog(optionSet) ==
  /\ opts \in optionSet
  /\ nver = [s \in SubjectSet |-> 0]
  /\ sr = [NewRegistry EXCEPT !.parseOptions = opts.parseOptions]
  /\ refreshHandle = "none"
  /\ run = [r \in RunIds |-> IdleRun]
  /\ nruns = 0
  /\ disposed = FALSE
  /\ faults = << >>

\* The subjects the catalog asks the registry about.
Watched ==
  IF opts.selectedTopics.set THEN Range(opts.selectedTopics.list) ELSE SubjectSet

\* A producer registers a new version of a subject with the registry.
Publish(s) ==
  /\ s \in Watched
  /\ nver[s] < MaxVersions
  /\ nver' = [nver EXCEPT ![s] = @ + 1]
  /\ UNCHANGED <<opts, sr, refreshHandle, run, nruns, disposed, faults, pool, codec, naming, client>>

\* One _fetchSchemas run begins, as number r.
BeginRun(r) ==
  LET out == fetchSchemas(sr)
  IN /\ run' = [run EXCEPT ![r] = out.run]
     /\ sr' = out.sr
     /\ nruns' = r

\* SchemaRegistry.prototype.init
SetIntervalAs == "none"

SetInterval == IF opts.fetchRefreshRate > 0 THEN "active" ELSE "none"

InitCall ==
  /\ nruns = 0
  /\ refreshHandle' = SetInterval
  /\ BeginRun(1)
  /\ UNCHANGED <<opts, nver, disposed, faults, pool, codec, naming, client>>

\* The interval timer fires: _fetchSchemas.bind(this)
Tick ==
  /\ refreshHandle = "active"
  /\ nruns < MaxRuns
  /\ BeginRun(nruns + 1)
  /\ UNCHANGED <<opts, nver, refreshHandle, disposed, faults, pool, codec, naming, client>>

\* KafkaAvro.prototype.dispose (no consumer or producer to disconnect)
ClearIntervalAs(handle) == handle

ClearInterval(handle) == IF handle = "active" THEN "cleared" ELSE handle

Dispose ==
  /\ nruns >= 1
  /\ ~disposed
  /\ disposed' = TRUE
  /\ refreshHandle' = ClearInterval(refreshHandle)
  /\ UNCHANGED <<opts, nver, sr, run, nruns, faults, pool, codec, naming, client>>

\* The request of item i of run r settles, and the promise chain runs on
\* until it waits for the next requests.
Settle(r, i, how) ==
  LET rr == run[r]
      res == Mapper(rr.stage, rr.items[i], Response(rr.stage, rr.items[i], how))
      vals2 == MapSettle(rr.vals, i, res)
      out == Continue(rr.stage, sr, vals2)
      changed == IF Indices(out.sr) # Indices(sr) THEN 1 ELSE 0
  IN /\ rr.stage \in RequestStages
     /\ i \in InFlight(rr)
     /\ how # "answer" => Len(faults) < MaxFaults
     /\ faults' = IF how = "answer" THEN faults ELSE Append(faults, <<r, rr.stage, how>>)
     /\ IF res.kind = "throw"
        THEN /\ run' = [run EXCEPT ![r] = [Finished("rejected") EXCEPT !.wrote = rr.wrote]]
             /\ sr' = sr
        ELSE IF MapDone(vals2)
        THEN /\ run' = [run EXCEPT ![r] = [out.run EXCEPT !.wrote = rr.wrote + changed]]
             /\ sr' = out.sr
        ELSE /\ run' = [run EXCEPT ![r] = [rr EXCEPT !.vals = vals2,
                                                      !.queue = DrainQueue(rr.queue)]]
             /\ sr' = sr
     /\ UNCHANGED <<opts, nver, refreshHandle, nruns, disposed, pool, codec, naming, client>>

Hows == {"answer", "http500", "net"}

SettleSome ==
  \E r \in RunIds : \E i \in 1..(2 * MaxVersions) : \E how \in Hows : Settle(r, i, how)

----------------------------------------------------------------------------
(* The catalog with periodic refresh: one selected subject, whose versions *)
(* are published while init() and the refresh runs are under way.          *)

RefreshOptions ==
  [fetchAllVersions : BOOLEAN, selectedTopics : {List(<<"a-value">>)},
   fetchRefreshRate : {1}, malformed : {{}}, parseOptions : {NoParseOptions}]

Idle == pool = << >> /\ codec = << >> /\ naming = << >> /\ client = << >>

Init == InitCatalog(RefreshOptions) /\ Idle

Next ==
  \/ \E s \in SubjectSet : Publish(s)
  \/ InitCall
  \/ Tick
  \/ Dispose
  \/ SettleSome

Spec == Init /\ [][Next]_vars

----------------------------------------------------------------------------
(* init() alone, without refresh, against a registry that holds any        *)
(* contents and keeps them while init() runs.                              *)

InitOptions ==
  [fetchAllVersions : BOOLEAN, selectedTopics : {NoList, List(Subjects)},
   fetchRefreshRate : {0}, malformed : {{}, {SchemaId("b-value", 1)}},
   parseOptions : {NoParseOptions}]

InitInit == InitCatalog(InitOptions) /\ Idle

PublishBefore(s) == nruns = 0 /\ Publish(s)

NextInit ==
  \/ \E s \in SubjectSet : PublishBefore(s)
  \/ InitCall
  \/ SettleSome

SpecInit == InitInit /\ [][NextInit]_vars

----------------------------------------------------------------------------
(* init() with parseOptions of the user's: without a registry, or with an  *)
(* empty one.                                                              *)

ParseInitOptions ==
  [fetchAllVersions : BOOLEAN, selectedTopics : {NoList, List(<<"a-value">>)},
   fetchRefreshRate : {0}, malformed : {{}},
   parseOptions : {NoParseOptions, ParseOptions({})}]

ParseInit == InitCatalog(ParseInitOptions) /\ Idle

SpecParse == ParseInit /\ [][NextInit]_vars

----------------------------------------------------------------------------
(* init() with a selection of topics, named as the README names them: by   *)
(* the topic ("a"), whose subjects in the registry are "a-value" and       *)
(* "a-key". The registry holds value subjects only.                        *)

TopicNames == <<"a", "b">>
KeySubjects == <<"a-key", "b-key">>

\* selectedTopic + '-value', selectedTopic + '-key'
Suffixed(selectedTopic, suffix) ==
  LET k == CHOOSE i \in DOMAIN TopicNames : TopicNames[i] = selectedTopic
  IN IF suffix = "-value" THEN Subjects[k] ELSE KeySubjects[k]

TopicInitOptions ==
  [fetchAllVersions : BOOLEAN, selectedTopics : {List(<<"a">>), List(TopicNames)},
   fetchRefreshRate : {0}, malformed : {{}}, parseOptions : {NoParseOptions}]

TopicInit == InitCatalog(TopicInitOptions) /\ Idle

\* A producer registers a version of the value subject of a topic, before
\* init().
PublishValue(s) ==
  /\ nruns = 0
  /\ nver[s] < MaxVersions
  /\ nver' = [nver EXCEPT ![s] = @ + 1]
  /\ UNCHANGED <<opts, sr, refreshHandle, run, nruns, disposed, faults, pool, codec, naming, client>>

TopicNext ==
  \/ \E s \in SubjectSet : PublishValue(s)
  \/ InitCall
  \/ SettleSome

SpecTopics == TopicInit /\ [][TopicNext]_vars

----------------------------------------------------------------------------
(* What a registry holds for a set of subjects, said without any run: the  *)
(* indices a synchronization is to build from it.                          *)

Registered(S) == {s \in S : nver[s] > 0}
LatestId(s) == SchemaId(s, nver[s])
Parsable(id) == id \notin opts.malformed
AllIds(S) == {SchemaId(s, v) : s \in S, v \in 1..MaxVersions} \cap
             UNION {{SchemaId(s, v) : v \in 1..nver[s]} : s \in S}
LatestParsable(S) == {s \in Registered(S) : Parsable(LatestId(s))}

ExpectedIndices(S) ==
  LET L == LatestParsable(S)
      ids == {LatestId(s) : s \in L} \cup
             (IF opts.fetchAllVersions THEN {i \in AllIds(S) : Parsable(i)} ELSE {})
  IN << [i \in ids |-> [def |-> i]],
        [s \in L |-> [def |-> LatestId(s)]],
        [s \in L |-> LatestId(s)],
        [s \in L |-> VersionResponse(s, nver[s])] >>

NoFault == faults = << >>
InitResolved == run[1].stage = "resolved"
InitRejected == run[1].stage = "rejected"

\* The failures injected into run r at one of the stages, of one of the kinds.
FaultsOf(r, stages, hows) ==
  {k \in DOMAIN faults : faults[k][1] = r /\ faults[k][2] \in stages /\ faults[k][3] \in hows}

----------------------------------------------------------------------------
(* Claims about init() (SpecInit) *)

Missing == {s \in Watched : nver[s] = 0}

\* C4: when the latest-version lookup of a selected subject is answered 404
\* (the registry has no version of it) and no other request fails, init()
\* does not reject; once it has resolved, the subject is in no index and
\* the indices are those of the selection without that subject.
C4_PartialFailureIsolation ==
  (nruns >= 1 /\ NoFault /\ opts.selectedTopics.set /\ Missing # {}) =>
    /\ ~InitRejected
    /\ InitResolved =>
         /\ \A s \in Missing :
              /\ s \notin (DOMAIN sr.schemas) \cup (DOMAIN sr.schemaIds)
                            \cup (DOMAIN sr.schemaMeta)
              /\ \A k \in DOMAIN sr.schemaMeta : sr.schemaMeta[k].subject # s
         /\ Indices(sr) = ExpectedIndices(Watched \ Missing)

C4_Witness ==
  /\ InitResolved /\ NoFault /\ opts.selectedTopics.set
  /\ nver["b-value"] = 0
  /\ "a-value" \in DOMAIN sr.schemas

\* C5 as claimed: a latest-version lookup failing otherwise than by 404, or
\* a failing schema fetch, makes init() reject.
C5_AnyOtherFailureIsFatal ==
  FaultsOf(1, {"latest", "schema", "vschema"}, {"http500", "net"}) # {} => InitRejected

\* C5 as amended: a latest-version lookup that gets no HTTP response, or a
\* failing schema fetch, makes init() reject; a latest-version lookup that is
\* answered with an HTTP error status (500 like 404) is suppressed, and
\* alone does not make init() reject.
C5_FatalFailures ==
  /\ FaultsOf(1, {"latest"}, {"net"}) # {} => InitRejected
  /\ FaultsOf(1, {"schema", "vschema"}, {"http500", "net"}) # {} => InitRejected
  /\ (faults # << >> /\ FaultsOf(1, {"latest"}, {"http500"}) = DOMAIN faults) => ~InitRejected

C5_Witness ==
  /\ InitRejected
  /\ FaultsOf(1, {"latest"}, {"net"}) # {}
  /\ nver["a-value"] > 0 /\ nver["b-value"] > 0

\* C6: after init() with every request answered and every schema parsable,
\* the per-subject indices hold exactly the discovered subjects, each with
\* its latest version; the by-id index holds exactly the latest ids, and
\* with fetchAllVersions the ids of all versions as well.
C6_CatalogCardinality ==
  (InitResolved /\ NoFault /\ opts.malformed = {}) =>
    LET D == Registered(Watched)
    IN /\ DOMAIN sr.schemas = D
       /\ DOMAIN sr.schemaIds = D
       /\ DOMAIN sr.schemaMeta = D
       /\ \A s \in D : /\ sr.schemaIds[s] = LatestId(s)
                       /\ sr.schemas[s] = [def |-> LatestId(s)]
                       /\ sr.schemaMeta[s].version = nver[s]
       /\ DOMAIN sr.schemaTypeById =
            IF opts.fetchAllVersions THEN AllIds(D) ELSE {LatestId(s) : s \in D}

C6_Witness ==
  /\ InitResolved /\ NoFault /\ opts.malformed = {}
  /\ opts.fetchAllVersions
  /\ \A s \in SubjectSet : nver[s] = MaxVersions
  /\ Cardinality(DOMAIN sr.schemaTypeById) = 2 * MaxVersions
  /\ Cardinality(DOMAIN sr.schemas) = 2

\* C7: a schema that does not parse never makes init() reject; its record is
\* in none of the indices, and the indices are those of the other records.
C7_ParseFailureIsSkipped ==
  (opts.malformed # {} /\ NoFault) =>
    /\ ~InitRejected
    /\ InitResolved =>
         /\ \A i \in opts.malformed :
              /\ i \notin DOMAIN sr.schemaTypeById
              /\ \A s \in DOMAIN sr.schemaIds : sr.schemaIds[s] # i
              /\ \A s \in DOMAIN sr.schemaMeta : sr.schemaMeta[s].id # i
              /\ \A s \in DOMAIN sr.schemas : sr.schemas[s].def # i
         /\ Indices(sr) = ExpectedIndices(Watched)

C7_Witness ==
  /\ InitResolved /\ NoFault
  /\ opts.malformed = {LatestId("b-value")}
  /\ "b-value" \notin DOMAIN sr.schemas
  /\ "a-value" \in DOMAIN sr.schemas

\* C9: whatever the order in which the requests of a run are answered, the
\* indices of the finished run are the ones the registry's contents give.
C9_OrderIndependent ==
  \A r \in RunIds :
    (run[r].stage = "resolved" /\ NoFault) => Indices(sr) = ExpectedIndices(Watched)

\* the second request of a stage is answered before the first
C9_Witness ==
  /\ run[1].stage = "vschema"
  /\ Len(run[1].vals) >= 2
  /\ run[1].vals[1] = Pending
  /\ run[1].vals[Len(run[1].vals)] # Pending

\* C25: without a topic allow-list, a subject listing that fails (no
\* response, or an HTTP error status) makes init() reject, and the run
\* registers no schema: every index stays empty.
C25_ListingFailureIsFatal ==
  (~opts.selectedTopics.set /\ FaultsOf(1, {"topics"}, {"http500", "net"}) # {}) =>
    /\ InitRejected
    /\ Indices(sr) = Indices(NewRegistry)

\* the listing was answered with an error status, which is suppressed
C25_Witness ==
  /\ ~opts.selectedTopics.set
  /\ FaultsOf(1, {"topics"}, {"http500"}) # {}
  /\ InitRejected
  /\ \A s \in SubjectSet : nver[s] > 0

----------------------------------------------------------------------------
(* Claims about parseOptions (SpecParse) *)

\* C35: whatever the parseOptions, the schemas that init() fetched are all
\* registered, those that declare the same type name too: with
\* fetchAllVersions the by-id index holds every version of every subject.
C35_SameNameIsRegistered ==
  (InitResolved /\ NoFault /\ opts.fetchAllVersions) =>
    DOMAIN sr.schemaTypeById = AllIds(Registered(Watched))

----------------------------------------------------------------------------
(* Claims about a selection of topics (SpecTopics) *)

\* The subjects of a list of topics: for each topic its value subject, then
\* its key subject.
RECURSIVE SubjectsOf(_)
SubjectsOf(topics) ==
  IF topics = << >> THEN << >>
  ELSE << Suffixed(Head(topics), "-value"), Suffixed(Head(topics), "-key") >>
         \o SubjectsOf(Tail(topics))

\* C36: with a selection of topics, the subjects that a run fetches are
\* <topic>-value and <topic>-key of every selected topic, and no run asks
\* the registry for the list of its subjects.
C36_SelectedTopicsGetSuffixes ==
  (opts.selectedTopics.set /\ nruns >= 1) =>
    /\ sr.schemaTopics = List(SubjectsOf(opts.selectedTopics.list))
    /\ \A r \in RunIds : run[r].stage # "topics"

----------------------------------------------------------------------------
(* Claims about the periodic refresh and dispose() (Spec) *)

RefreshRuns == RunIds \ {1}
InProgress == {r \in RunIds : run[r].stage \in RequestStages}

\* C1: a refresh run changes the indices in at most one turn of the event
\* loop, so that a lookup made while it runs sees the indices as they were
\* before the run or as the run leaves them, never some of its updates only.
C1_RefreshIsAtomic == \A r \in RefreshRuns : run[r].wrote <= 1

\* C2: a refresh run that has failed has changed none of the indices.
C2_FailedRefreshChangesNothing ==
  \A r \in RefreshRuns : run[r].stage = "rejected" => run[r].wrote = 0

\* C10 as claimed: once dispose() has resolved, no run is started and the
\* indices never change.
C10_InertAfterDispose ==
  [][disposed => (nruns' = nruns /\ Indices(sr') = Indices(sr))]_vars

\* C10 as amended: once dispose() has resolved, no run is started; the
\* indices never change once the runs started before it have finished.
C10_NoRunAfterDispose ==
  [][disposed => /\ nruns' = nruns
                 /\ InProgress = {} => Indices(sr') = Indices(sr)]_vars

C10_Witness ==
  /\ disposed
  /\ refreshHandle = "cleared"
  /\ nruns < MaxRuns
  /\ InitResolved

\* The catalog's metadata names the registry's latest version of every
\* registered subject: the last run has seen what the registry holds now.
UpToDate ==
  \A s \in Registered(Watched) :
    s \in DOMAIN sr.schemaMeta /\ sr.schemaMeta[s].version = nver[s]

\* C11: once a refresh run has completed successfully, with every request
\* answered and no other run under way, the indices are the ones init()
\* builds on a new catalog from what the registry holds at that time.
C11_RefreshBuildsNewSnapshot ==
  (nruns >= 2 /\ run[nruns].stage = "resolved" /\ InProgress = {} /\ NoFault /\ UpToDate)
    => Indices(sr) = ExpectedIndices(Watched)

\* C30: in every state, schemas, schemaIds and schemaMeta have the same
\* subjects as keys; the id of a subject is the id of its metadata, and
\* the by-id index has a type for that id.
C30_IndexConsistency ==
  /\ DOMAIN sr.schemas = DOMAIN sr.schemaIds
  /\ DOMAIN sr.schemaIds = DOMAIN sr.schemaMeta
  /\ \A s \in DOMAIN sr.schemaIds :
       /\ sr.schemaIds[s] = sr.schemaMeta[s].id
       /\ sr.schemaIds[s] \in DOMAIN sr.schemaTypeById

\* a refresh has replaced the first version of a subject by the second
C30_Witness ==
  /\ nruns >= 2
  /\ "a-value" \in DOMAIN sr.schemaIds
  /\ sr.schemaIds["a-value"] = SchemaId("a-value", 2)
  /\ SchemaId("a-value", 1) \in DOMAIN sr.schemaTypeById

\* C29: the latest entry of a subject never goes back to an older version:
\* no step, of whichever run, replaces the registered version of a subject
\* by a lower one.
C29_LatestNeverGoesBack ==
  [][\A s \in DOMAIN sr.schemaMeta :
       /\ s \in DOMAIN sr'.schemaMeta
       /\ sr'.schemaMeta[s].version >= sr.schemaMeta[s].version]_vars

\* The step is one of the all-versions stage of some run: the answer to a
\* version listing or to the fetch of one listed version.
AllVersionsStep ==
  \E r \in RunIds : run[r].stage \in {"versions", "vschema"} /\ run'[r] # run[r]

\* C28: a step of the all-versions stage leaves schemas, schemaIds and
\* schemaMeta as they are, and keeps every entry of the by-id index.
C28_AllVersionsOnlyAddsById ==
  [][AllVersionsStep =>
       /\ sr'.schemas = sr.schemas
       /\ sr'.schemaIds = sr.schemaIds
       /\ sr'.schemaMeta = sr.schemaMeta
       /\ \A i \in DOMAIN sr.schemaTypeById :
            i \in DOMAIN sr'.schemaTypeById /\ sr'.schemaTypeById[i] = sr.schemaTypeById[i]]_vars

\* the all-versions stage of init() has added a version that was published
\* after the latest-version stage looked
C28_Witness ==
  /\ opts.fetchAllVersions
  /\ nruns = 1
  /\ InitResolved
  /\ "a-value" \in DOMAIN sr.schemaIds
  /\ sr.schemaIds["a-value"] = SchemaId("a-value", 1)
  /\ DOMAIN sr.schemaTypeById = {SchemaId("a-value", 1), SchemaId("a-value", 2)}

\* C33: once init() has rejected, no synchronization run starts (init() is
\* called once): no refresh is left scheduled.
C33_NoRefreshAfterFailedInit ==
  [][InitRejected => nruns' = nruns]_vars

----------------------------------------------------------------------------
(* The periodic refresh without an end: the timer keeps firing while the   *)
(* handle is active, and a run that has finished gives its place to the    *)
(* run of a later tick. Every request is answered by the registry.         *)

\* The interval timer fires again, after the run that held place r finished.
TickAgain(r) ==
  LET out == fetchSchemas(sr)
  IN /\ refreshHandle = "active"
     /\ nruns = MaxRuns
     /\ r \in RunIds \ {1}
     /\ run[r].stage \in {"resolved", "rejected"}
     /\ run' = [run EXCEPT ![r] = out.run]
     /\ sr' = out.sr
     /\ UNCHANGED <<opts, nver, refreshHandle, nruns, disposed, faults, pool, codec, naming, client>>

TickAgainSome == \E r \in RunIds : TickAgain(r)

\* The registry answers one request.
Answer == \E r \in RunIds : \E i \in 1..(2 * MaxVersions) : Settle(r, i, "answer")

NextLive ==
  \/ \E s \in SubjectSet : Publish(s)
  \/ InitCall
  \/ Tick
  \/ TickAgainSome
  \/ Answer

\* setInterval fires as long as the handle is active, and the registry
\* answers every request.
SpecLive ==
  /\ Init
  /\ [][NextLive]_vars
  /\ WF_vars(Tick)
  /\ WF_vars(TickAgainSome)
  /\ WF_vars(Answer)

\* Subject s can be looked up by subject and by id.
Resolvable(s) ==
  /\ s \in DOMAIN sr.schemas
  /\ s \in DOMAIN sr.schemaIds
  /\ sr.schemaIds[s] \in DOMAIN sr.schemaTypeById

\* init() has resolved without registering s (its lookup was answered 404
\* and suppressed), and the registry holds a version of s by now.
SuppressedThenPublished(s) ==
  /\ InitResolved
  /\ s \notin DOMAIN sr.schemas
  /\ nver[s] > 0

\* C27: with periodic refresh, a subject that init() left out because its
\* lookup was suppressed, and that the registry holds later, eventually
\* becomes resolvable by subject and by id, without a new init().
C27_SuppressedSubjectIsRetried ==
  \A s \in SubjectSet : SuppressedThenPublished(s) ~> Resolvable(s)

\* a later run has registered the subject that init() did not find
C27_Witness ==
  /\ InitResolved
  /\ run[1].wrote = 0
  /\ nruns = MaxRuns
  /\ Resolvable("a-value")

----------------------------------------------------------------------------
(* The request pool of _fetchSchemas with more subjects than the limit.    *)
(* The requests of one stage are alike, so they are counted: `queued` have *)
(* not started, `inflight` are started and not answered. The detailed      *)
(* catalog above stays as constructed.                                     *)

PoolSubjects == 12

CatalogUnused ==
  InitCatalog({[fetchAllVersions |-> FALSE, selectedTopics |-> NoList,
                fetchRefreshRate |-> 1, malformed |-> {},
                parseOptions |-> NoParseOptions]})

PoolIdleRun == [stage |-> "idle", queued |-> 0, inflight |-> 0]

\* .map(mapper, {concurrency: 10}): how many of n mappers start at once
PoolStartedAs(n) == n

PoolStarted(n) == IF n > Concurrency THEN Concurrency ELSE n

PoolStartMap(stage, n) ==
  [stage |-> stage, queued |-> n - PoolStarted(n), inflight |-> PoolStarted(n)]

PoolInit ==
  /\ CatalogUnused
  /\ codec = << >>
  /\ naming = << >>
  /\ client = << >>
  /\ pool = [handle |-> "none", started |-> 0, runs |-> [r \in RunIds |-> PoolIdleRun]]

\* One _fetchSchemas run begins: the subjects are the selected ones, and the
\* latest-version lookups start.
PoolBeginRun(r, handle) ==
  pool' = [handle |-> handle, started |-> r,
           runs |-> [pool.runs EXCEPT ![r] = PoolStartMap("latest", PoolSubjects)]]

\* init(): setInterval, then _fetchSchemas
PoolInitCall ==
  /\ pool.started = 0
  /\ PoolBeginRun(1, "active")
  /\ UNCHANGED <<catVars, codec, naming, client>>

\* The interval timer fires, whether or not earlier runs have finished.
PoolTick ==
  /\ pool.handle = "active"
  /\ pool.started < MaxRuns
  /\ PoolBeginRun(pool.started + 1, pool.handle)
  /\ UNCHANGED <<catVars, codec, naming, client>>

\* A request of run r is answered: a queued one starts (_drainQueue), and the
\* stage ends with its last answer.
PoolAnswer(r) ==
  LET pr == pool.runs[r]
      starts == IF pr.queued > 0 /\ pr.inflight - 1 < Concurrency THEN 1 ELSE 0
      left == [pr EXCEPT !.queued = @ - starts, !.inflight = @ - 1 + starts]
      after == IF left.queued + left.inflight > 0 THEN left
               ELSE IF pr.stage = "latest" THEN PoolStartMap("schema", PoolSubjects)
               ELSE [left EXCEPT !.stage = "resolved"]
  IN /\ pr.stage \in {"latest", "schema"}
     /\ pr.inflight > 0
     /\ pool' = [pool EXCEPT !.runs[r] = after]
     /\ UNCHANGED <<catVars, codec, naming, client>>

\* A request of run r fails fatally: the run rejects and starts no further
\* request; its requests in flight are not cancelled.
PoolFail(r) ==
  LET pr == pool.runs[r]
  IN /\ pr.stage \in {"latest", "schema"}
     /\ pr.inflight > 0
     /\ pool' = [pool EXCEPT !.runs[r] =
                   [stage |-> "rejected", queued |-> 0, inflight |-> pr.inflight - 1]]
     /\ UNCHANGED <<catVars, codec, naming, client>>

\* A request of a rejected run is answered; nobody waits for it.
PoolOrphan(r) ==
  /\ pool.runs[r].stage = "rejected"
  /\ pool.runs[r].inflight > 0
  /\ pool' = [pool EXCEPT !.runs[r].inflight = @ - 1]
  /\ UNCHANGED <<catVars, codec, naming, client>>

PoolNext ==
  \/ PoolInitCall
  \/ PoolTick
  \/ \E r \in RunIds : PoolAnswer(r)
  \/ \E r \in RunIds : PoolFail(r)
  \/ \E r \in RunIds : PoolOrphan(r)

SpecPool == PoolInit /\ [][PoolNext]_vars

RECURSIVE PoolInFlightUpTo(_)
PoolInFlightUpTo(r) == IF r = 0 THEN 0 ELSE pool.runs[r].inflight + PoolInFlightUpTo(r - 1)

\* The requests the catalog has in flight, over all its runs.
PoolInFlight == PoolInFlightUpTo(MaxRuns)

\* C8 as claimed: the catalog never has more than 10 requests in flight.
C8_AtMostTenInFlight == PoolInFlight <= Concurrency

\* C8 as amended: one _fetchSchemas run never has more than 10 requests in
\* flight, however many subjects there are; runs that overlap (init() and a
\* refresh, or two refreshes) have 10 each.
C8_AtMostTenInFlightPerRun == \A r \in RunIds : pool.runs[r].inflight <= Concurrency

C8_Witness ==
  \E r \in RunIds : pool.runs[r].inflight = Concurrency /\ pool.runs[r].queued > 0

----------------------------------------------------------------------------
(* The wire codec (lib/magic-byte.js). A buffer is a sequence of bytes:    *)
(* offset k of the JavaScript buffer is element k + 1.                     *)

MAGIC_BYTE == 0

DefaultLength == 1024

LongString == 1030

\* new Buffer(length): `fill` stands for whatever the memory holds.
NewBuffer(length, fill) == [k \in 1..length |-> fill]

\* buf[offset .. offset + Len(bytes) - 1] = bytes
WriteBytes(buf, bytes, offset) ==
  [k \in DOMAIN buf |->
     IF k > offset /\ k <= offset + Len(bytes) THEN bytes[k - offset] ELSE buf[k]]

\* buf.slice(0, end)
Slice(buf, end) == SubSeq(buf, 1, end)

\* The four bytes of a signed 32-bit integer in two's complement, most
\* significant first (\div rounds down and % is never negative).
Int32BytesAs(value) == << 0, 0, (value \div 256) % 256, value % 256 >>

Int32Bytes(value) ==
  << (value \div 16777216) % 256, (value \div 65536) % 256,
     (value \div 256) % 256, value % 256 >>

writeInt32BEAs(buf, value, offset) ==
  LET b == Int32Bytes(value)
  IN WriteBytes(buf, << b[4], b[3], b[2], b[1] >>, offset)

writeInt32BE(buf, value, offset) == WriteBytes(buf, Int32Bytes(value), offset)

readInt32BE(buf, offset) ==
  LET b1 == buf[offset + 1]
      high == IF b1 >= 128 THEN b1 - 256 ELSE b1
  IN high * 16777216 + buf[offset + 2] * 65536 + buf[offset + 3] * 256 + buf[offset + 4]

(* avsc's types, for the Avro types "long", "string" and a record          *)
(* {name: string, long: long}: zig-zag variable-length integers, strings   *)
(* as their length and their bytes, records as their fields in order.      *)
(* "recordAnother" is the record with a third field anotherString, and     *)
(* "recordDefault" the same with the default "defaultValue" for it.        *)

\* no type: undefined
NoType == "none"

\* "defaultValue"
DefaultValue == << 100, 101, 102, 97, 117, 108, 116, 86, 97, 108, 117, 101 >>

RecordTypes == {"record", "recordAnother", "recordDefault"}

\* The fields of a record type, in the schema's order.
Fields(type) ==
  LET two == << [name |-> "name", type |-> "string", hasDefault |-> FALSE],
                [name |-> "long", type |-> "long", hasDefault |-> FALSE] >>
  IN CASE type = "record" -> two
       [] type = "recordAnother" ->
            Append(two, [name |-> "anotherString", type |-> "string", hasDefault |-> FALSE])
       [] type = "recordDefault" ->
            Append(two, [name |-> "anotherString", type |-> "string", hasDefault |-> TRUE,
                         default |-> DefaultValue])

FieldNames(type) == {Fields(type)[k].name : k \in DOMAIN Fields(type)}
FieldOf(type, name) == CHOOSE f \in Range(Fields(type)) : f.name = name

ZigZag(n) == IF n >= 0 THEN 2 * n ELSE -2 * n - 1
UnZigZag(u) == IF u % 2 = 0 THEN u \div 2 ELSE -((u + 1) \div 2)

RECURSIVE VarInt(_)
VarInt(u) == IF u < 128 THEN << u >> ELSE << (u % 128) + 128 >> \o VarInt(u \div 128)

\* The variable-length integer at offset pos: its value, and the offset after
\* it. A byte past the end of the buffer is undefined, and reads as 0.
RECURSIVE ReadVarInt(_, _)
ReadVarInt(buf, pos) ==
  LET b == IF pos + 1 \in DOMAIN buf THEN buf[pos + 1] ELSE 0
  IN IF b < 128 THEN [value |-> b, offset |-> pos + 1]
     ELSE LET rest == ReadVarInt(buf, pos + 1)
          IN [value |-> (b - 128) + 128 * rest.value, offset |-> rest.offset]

WriteLong(n) == VarInt(ZigZag(n))
WriteString(str) == WriteLong(Len(str)) \o str

ReadLong(buf, pos) ==
  LET r == ReadVarInt(buf, pos)
  IN [value |-> UnZigZag(r.value), offset |-> r.offset]

\* A string that ends past the end of the buffer reads as nothing, and the
\* offset is past the end all the same.
ReadString(buf, pos) ==
  LET n == ReadLong(buf, pos)
  IN [value |-> IF n.value < 0 \/ n.offset + n.value > Len(buf) THEN << >>
                ELSE SubSeq(buf, n.offset + 1, n.offset + n.value),
      offset |-> n.offset + n.value]

TypeWrite(type, val) ==
  CASE type = "long" -> WriteLong(val)
    [] type = "string" -> WriteString(val)
    [] type \in {"recordAnother", "recordDefault"} ->
         WriteString(val.name) \o WriteLong(val.long) \o WriteString(val.anotherString)
    [] OTHER -> WriteString(val.name) \o WriteLong(val.long)

\* type.encode(val, buf, pos): the offset after the value, or, when the
\* buffer is too short, minus the number of bytes that are missing.
TypeEncode(type, val, buf, pos) ==
  LET bytes == TypeWrite(type, val)
      end == pos + Len(bytes)
  IN IF end > Len(buf)
     THEN [buf |-> buf, pos |-> Len(buf) - end]
     ELSE [buf |-> WriteBytes(buf, bytes, pos), pos |-> end]

\* type._read(tap): the value at the tap's position, and the position after
TypeRead(type, buf, pos) ==
  CASE type = "long" -> ReadLong(buf, pos)
    [] type = "string" -> ReadString(buf, pos)
    [] type \in {"recordAnother", "recordDefault"} ->
         LET n == ReadString(buf, pos)
             l == ReadLong(buf, n.offset)
             a == ReadString(buf, l.offset)
         IN [value |-> [name |-> n.value, long |-> l.value, anotherString |-> a.value],
             offset |-> a.offset]
    [] OTHER ->
         LET n == ReadString(buf, pos)
             l == ReadLong(buf, n.offset)
         IN [value |-> [name |-> n.value, long |-> l.value], offset |-> l.offset]

\* undefined
Undefined == "undefined"

\* type.decode(buf, pos): {value, offset}; when the value ends past the end
\* of the buffer, nothing is thrown: the result is {value: undefined, offset: -1}.
TypeDecode(type, buf, pos) ==
  LET r == TypeRead(type, buf, pos)
  IN IF r.offset > Len(buf) THEN [value |-> Undefined, offset |-> -1] ELSE r

\* readerType.createResolver(writerType): throws unless the reader can read
\* what the writer wrote. A reader's field the writer lacks needs a default;
\* the fields both have must be of the same type.
createResolver(readerType, writerType) ==
  IF writerType = NoType THEN Throw
  ELSE IF readerType \in RecordTypes /\ writerType \in RecordTypes
  THEN IF \A f \in Range(Fields(readerType)) :
            IF f.name \in FieldNames(writerType)
            THEN FieldOf(writerType, f.name).type = f.type
            ELSE f.hasDefault
       THEN Return([reader |-> readerType, writer |-> writerType])
       ELSE Throw
  ELSE IF readerType = writerType THEN Return([reader |-> readerType, writer |-> writerType])
  ELSE Throw

\* readerType.decode(buf, pos, resolver) with every default applied.
ResolverDecodeAs(resolver, buf, pos) ==
  LET w == TypeRead(resolver.writer, buf, pos)
  IN IF w.offset > Len(buf) THEN [value |-> Undefined, offset |-> -1]
     ELSE IF resolver.reader \notin RecordTypes THEN w
     ELSE [value |-> [n \in FieldNames(resolver.reader) |->
                        IF FieldOf(resolver.reader, n).hasDefault
                        THEN FieldOf(resolver.reader, n).default
                        ELSE w.value[n]],
           offset |-> w.offset]

\* readerType.decode(buf, pos, resolver): the writer's fields are read in the
\* writer's order; the value has the reader's fields, a field the writer
\* lacks with the reader's default.
ResolverDecode(resolver, buf, pos) ==
  LET w == TypeRead(resolver.writer, buf, pos)
  IN IF w.offset > Len(buf) THEN [value |-> Undefined, offset |-> -1]
     ELSE IF resolver.reader \notin RecordTypes THEN w
     ELSE [value |-> [n \in FieldNames(resolver.reader) |->
                        IF n \in FieldNames(resolver.writer)
                        THEN w.value[n]
                        ELSE FieldOf(resolver.reader, n).default],
           offset |-> w.offset]

\* magicByte.toMessageBuffer; optLength 0 stands for a call without it.
\* Writing the schema id throws when the buffer is shorter than the header.
RECURSIVE toMessageBuffer(_, _, _, _, _)
toMessageBuffer(val, type, schemaId, optLength, fill) ==
  LET length == IF optLength = 0 THEN DefaultLength ELSE optLength
      buf == NewBuffer(length, fill)
  IN IF length < 5 THEN Throw
     ELSE LET buf1 == writeInt32BE([buf EXCEPT ![1] = MAGIC_BYTE], schemaId, 1)
              enc == TypeEncode(type, val, buf1, 5)
          IN IF enc.pos < 0
             THEN toMessageBuffer(val, type, schemaId, length - enc.pos, fill)
             ELSE Return(Slice(enc.buf, enc.pos))

\* magicByte.fromMessageBuffer(encodedMessage, sr); reading the schema id
\* throws a RangeError on a buffer shorter than the header.
fromMessageBuffer(encodedMessage, byId) ==
  IF encodedMessage = << >> \/ encodedMessage[1] # MAGIC_BYTE THEN ReturnNull
  ELSE IF Len(encodedMessage) < 5 THEN Throw
  ELSE LET schemaId == readInt32BE(encodedMessage, 1)
       IN IF schemaId \notin DOMAIN byId THEN ReturnNull
          ELSE Return([value |-> TypeDecode(byId[schemaId], encodedMessage, 5).value,
                       schemaId |-> schemaId])

\* The writer type of the revisions that take one as a fallback, with the
\* fallback tried first.
writerTypeOfAs(byId, schemaId, writerType) ==
  IF writerType # NoType THEN writerType
  ELSE IF schemaId \in DOMAIN byId THEN byId[schemaId] ELSE NoType

\* sr.schemaTypeById[schemaKey] || writerType
writerTypeOf(byId, schemaId, writerType) ==
  IF schemaId \in DOMAIN byId THEN byId[schemaId] ELSE writerType

\* The magic byte test of the revisions that throw, left out.
hasMagicByteAs(encodedMessage) == TRUE

\* encodedMessage[0] === MAGIC_BYTE
hasMagicByte(encodedMessage) ==
  encodedMessage # << >> /\ encodedMessage[1] = MAGIC_BYTE

\* The revision with a default type, taking a buffer shorter than the header
\* for no message at all.
fromMessageBufferWriterAs(type, encodedMessage, byId) ==
  IF ~hasMagicByte(encodedMessage) THEN Throw
  ELSE IF Len(encodedMessage) < 5 THEN ReturnNull
  ELSE LET schemaId == readInt32BE(encodedMessage, 1)
           wt == writerTypeOf(byId, schemaId, type)
       IN IF wt = NoType THEN Throw
          ELSE Return([value |-> TypeDecode(wt, encodedMessage, 5).value,
                       schemaId |-> schemaId])

\* magicByte.fromMessageBuffer(type, encodedMessage, sr), the revision with a
\* default type. Reading the schema id throws on a buffer shorter than the
\* header, and so does decoding with no type at all.
fromMessageBufferWriter(type, encodedMessage, byId) ==
  IF ~hasMagicByte(encodedMessage) \/ Len(encodedMessage) < 5 THEN Throw
  ELSE LET schemaId == readInt32BE(encodedMessage, 1)
           wt == writerTypeOf(byId, schemaId, type)
       IN IF wt = NoType THEN Throw
          ELSE Return([value |-> TypeDecode(wt, encodedMessage, 5).value,
                       schemaId |-> schemaId])

\* magicByte.fromMessageBuffer(writerType, encodedMessage, sr, readerType),
\* the revision with a reader type.
fromMessageBufferReader(writerType, encodedMessage, byId, readerType) ==
  IF ~hasMagicByte(encodedMessage) \/ Len(encodedMessage) < 5 THEN Throw
  ELSE LET schemaId == readInt32BE(encodedMessage, 1)
           wt == writerTypeOf(byId, schemaId, writerType)
       IN IF readerType # NoType
          THEN LET resolver == createResolver(readerType, wt)
               IN IF resolver.kind = "throw" THEN Throw
                  ELSE Return([value |-> ResolverDecode(resolver.v, encodedMessage, 5).value,
                               schemaId |-> schemaId])
          ELSE IF wt = NoType THEN Throw
          ELSE Return([value |-> TypeDecode(wt, encodedMessage, 5).value,
                       schemaId |-> schemaId])

----------------------------------------------------------------------------
(* One message through the codec: encoded, then decoded by a consumer.     *)

Types == {"long", "string", "record", "recordAnother"}

Longs == {0, 1, -1, 63, 64, -65, 540}
Strings == {<< >>, << 48 >>, << 48, 49, 50 >>, [k \in 1..LongString |-> 48]}

\* The values a type can encode.
ValuesOf(type) ==
  CASE type = "long" -> Longs
    [] type = "string" -> Strings
    [] type = "recordAnother" ->
         [name : {<< 48 >>}, long : {540}, anotherString : {<< >>, << 110, 111 >>, DefaultValue}]
    [] OTHER -> [name : Strings, long : {0, 540, -65}]

MinInt32 == -2147483647 - 1
SchemaIds == {0, 1, 109, 256, 2147483647, -1, MinInt32}
Lengths == {0, 3, 5, 7}
Fills == {0, 170}

CodecInit ==
  /\ CatalogUnused
  /\ pool = << >>
  /\ naming = << >>
  /\ client = << >>
  /\ codec = [phase |-> "idle"]

\* A producer encodes a value.
CodecEncode(type, val, schemaId, optLength, fill) ==
  /\ codec.phase = "idle"
  /\ codec' = [phase |-> "encoded", type |-> type, val |-> val, schemaId |-> schemaId,
               optLength |-> optLength,
               out |-> toMessageBuffer(val, type, schemaId, optLength, fill)]
  /\ UNCHANGED <<catVars, pool, naming, client>>

\* A consumer decodes the message against its by-id index, which holds the
\* message's schema id with the writer's type, or does not hold it.
CodecDecode(known) ==
  /\ codec.phase = "encoded"
  /\ codec.out.kind = "value"
  /\ LET byId == IF known THEN Put(EmptyDict, codec.schemaId, codec.type) ELSE EmptyDict
     IN codec' = [codec EXCEPT !.phase = "decoded"] @@
                 [byId |-> byId, decoded |-> fromMessageBuffer(codec.out.v, byId)]
  /\ UNCHANGED <<catVars, pool, naming, client>>

\* A message as a consumer may find it on a topic: with the first byte the
\* producer wrote (0), or another one (a message that was not produced with
\* the magic byte).
Garble(buf, first) == [buf EXCEPT ![1] = first]

FirstBytes == {0, 1, 255}

\* The by-id index of the consumer: with the writer's type, or empty.
ByIdOf(known) == IF known THEN Put(EmptyDict, codec.schemaId, codec.type) ELSE EmptyDict

\* The type a consumer passes as the fallback: none, the writer's, or the
\* record without anotherString (for a message that is a record).
FallbackOf(fallback) ==
  CASE fallback = "writer" -> codec.type
    [] fallback = "record" -> "record"
    [] OTHER -> NoType

Fallbacks ==
  {"none", "writer"} \cup (IF codec.type \in RecordTypes THEN {"record"} ELSE {})

ReaderTypes == {NoType, "record", "recordAnother", "recordDefault"}

\* A consumer of the current revision meets a message without the magic byte.
CodecDecodeForeign(first, known) ==
  /\ codec.phase = "encoded"
  /\ codec.out.kind = "value"
  /\ first # MAGIC_BYTE
  /\ codec' = [codec EXCEPT !.phase = "foreign"] @@
               [first |-> first, known |-> known,
                decoded |-> fromMessageBuffer(Garble(codec.out.v, first), ByIdOf(known))]
  /\ UNCHANGED <<catVars, pool, naming, client>>

\* A consumer of the revision with a default type decodes the message.
CodecDecodeWriter(first, known, fallback) ==
  /\ codec.phase = "encoded"
  /\ codec.out.kind = "value"
  /\ codec' = [codec EXCEPT !.phase = "decodedWriter"] @@
               [first |-> first, known |-> known, fallback |-> fallback,
                decoded |-> fromMessageBufferWriter(FallbackOf(fallback),
                              Garble(codec.out.v, first), ByIdOf(known))]
  /\ UNCHANGED <<catVars, pool, naming, client>>

\* A consumer of the revision with a reader type decodes the message.
CodecDecodeReader(first, known, fallback, reader) ==
  /\ codec.phase = "encoded"
  /\ codec.out.kind = "value"
  /\ codec' = [codec EXCEPT !.phase = "decodedReader"] @@
               [first |-> first, known |-> known, fallback |-> fallback, reader |-> reader,
                decoded |-> fromMessageBufferReader(FallbackOf(fallback),
                              Garble(codec.out.v, first), ByIdOf(known), reader)]
  /\ UNCHANGED <<catVars, pool, naming, client>>

\* The revisions of fromMessageBuffer: (encodedMessage, sr) of
\* lib/magic-byte.js, (type, encodedMessage, sr), and
\* (writerType, encodedMessage, sr, readerType) of part_006.
DecodeRevisions == {"current", "writer", "reader"}

\* A consumer meets a message of which only the first `length` bytes are
\* there, fewer than the header has; its catalog holds the schema id the
\* producer wrote, and the writer's type is its fallback.
CodecDecodeShort(length, first, revision) ==
  /\ codec.phase = "encoded"
  /\ codec.out.kind = "value"
  /\ LET encodedMessage == Slice(Garble(codec.out.v, first), length)
     IN codec' = [codec EXCEPT !.phase = "short"] @@
                  [first |-> first, length |-> length, revision |-> revision,
                   message |-> encodedMessage,
                   decoded |->
                     CASE revision = "current" ->
                            fromMessageBuffer(encodedMessage, ByIdOf(TRUE))
                       [] revision = "writer" ->
                            fromMessageBufferWriter(codec.type, encodedMessage, ByIdOf(TRUE))
                       [] OTHER ->
                            fromMessageBufferReader(codec.type, encodedMessage, ByIdOf(TRUE),
                                                    NoType)]
  /\ UNCHANGED <<catVars, pool, naming, client>>

CodecNext ==
  \/ \E type \in Types : \E val \in ValuesOf(type) : \E schemaId \in SchemaIds :
       \E optLength \in Lengths : \E fill \in Fills :
         CodecEncode(type, val, schemaId, optLength, fill)
  \/ \E known \in BOOLEAN : CodecDecode(known)
  \/ \E first \in FirstBytes : \E known \in BOOLEAN : CodecDecodeForeign(first, known)
  \/ /\ codec.phase = "encoded"
     /\ \E first \in FirstBytes : \E known \in BOOLEAN : \E fallback \in Fallbacks :
          CodecDecodeWriter(first, known, fallback)
  \/ /\ codec.phase = "encoded"
     /\ \E first \in FirstBytes : \E known \in BOOLEAN : \E fallback \in Fallbacks :
          \E reader \in ReaderTypes : CodecDecodeReader(first, known, fallback, reader)
  \/ \E length \in 0..4 : \E first \in FirstBytes : \E revision \in DecodeRevisions :
       CodecDecodeShort(length, first, revision)

SpecCodec == CodecInit /\ [][CodecNext]_vars

\* C3: a message encoded from value v with type T and schema id N, decoded
\* against an index that maps N to T, gives {value: v, schemaId: N}.
C3_RoundTrip ==
  (codec.phase = "decoded" /\ codec.schemaId \in DOMAIN codec.byId
     /\ codec.byId[codec.schemaId] = codec.type) =>
    codec.decoded = Return([value |-> codec.val, schemaId |-> codec.schemaId])

\* a round trip of a record, with a negative schema id, through a buffer
\* that had to grow
C3_Witness ==
  /\ codec.phase = "decoded"
  /\ codec.type = "record" /\ codec.val.long = -65 /\ Len(codec.val.name) = LongString
  /\ codec.schemaId = MinInt32
  /\ codec.byId = Put(EmptyDict, codec.schemaId, codec.type)
  /\ codec.decoded.kind = "value"

----------------------------------------------------------------------------
(* Claims about the envelope and about the revisions of decoding (SpecCodec) *)

Encoded == codec.phase # "idle"

\* The length of the first buffer that toMessageBuffer allocates.
InitialLength == IF codec.optLength = 0 THEN DefaultLength ELSE codec.optLength

\* The 5-byte header and the encoded value.
Envelope == << MAGIC_BYTE >> \o Int32Bytes(codec.schemaId) \o TypeWrite(codec.type, codec.val)

\* C12: when the header and the encoded value do not fit the initial buffer,
\* toMessageBuffer returns the header followed by the encoded value and
\* nothing else, as a call with a buffer that is large enough does.
C12_GrowthSucceeds ==
  (Encoded /\ Len(Envelope) > InitialLength) => codec.out = Return(Envelope)

\* How many times toMessageBuffer calls itself with a larger buffer.
RECURSIVE Retries(_, _, _, _)
Retries(val, type, schemaId, optLength) ==
  LET length == IF optLength = 0 THEN DefaultLength ELSE optLength
  IN IF length < 5 THEN 0
     ELSE LET enc == TypeEncode(type, val, NewBuffer(length, 0), 5)
          IN IF enc.pos < 0 THEN 1 + Retries(val, type, schemaId, length - enc.pos)
             ELSE 0

\* C38: for every initial length of 1 or more, the lengths below the 5
\* bytes of the header included, toMessageBuffer returns, and returns the
\* bytes it returns with the default length: the header and the encoded
\* value; it retries once at most.
C38_AnyInitialLength ==
  (Encoded /\ codec.optLength > 0) =>
    /\ codec.out = Return(Envelope)
    /\ Retries(codec.val, codec.type, codec.schemaId, codec.optLength) <= 1

\* C13: a buffer that toMessageBuffer returns begins with the byte 0 and the
\* four bytes of the schema id, most significant first, in two's complement:
\* read as a big-endian signed 32-bit integer they give the schema id.
C13_HeaderLayout ==
  (Encoded /\ codec.out.kind = "value") =>
    LET b == codec.out.v
    IN /\ Len(b) >= 5
       /\ b[1] = 0
       /\ \A k \in 2..5 : b[k] \in 0..255
       /\ readInt32BE(b, 1) = codec.schemaId
       /\ (b[2] >= 128) <=> (codec.schemaId < 0)

\* the smallest schema id, in a buffer that had to grow
C13_Witness ==
  /\ codec.phase = "encoded"
  /\ codec.schemaId = MinInt32
  /\ codec.optLength = 5
  /\ codec.out.kind = "value"
  /\ SubSeq(codec.out.v, 1, 5) = << 0, 128, 0, 0, 0 >>

Foreign == codec.phase \in {"foreign", "decodedWriter", "decodedReader"} /\ codec.first # 0

Short == codec.phase = "short"

ReadAsRecord == [name |-> codec.val.name, long |-> codec.val.long]

Decoded(value) == Return([value |-> value, schemaId |-> codec.schemaId])

\* The revisions that take a fallback writer type, decoding a message with
\* the magic byte and without a reader type.
WithFallback ==
  /\ codec.phase \in {"decodedWriter", "decodedReader"}
  /\ codec.first = 0
  /\ codec.phase = "decodedReader" => codec.reader = NoType

\* The writer type is the catalog's when it has the id, whatever the
\* fallback; the fallback when it has not; and an error when there is none.
FallbackRule ==
  WithFallback =>
    codec.decoded = IF codec.known THEN Decoded(codec.val)
                    ELSE CASE codec.fallback = "writer" -> Decoded(codec.val)
                           [] codec.fallback = "record" -> Decoded(ReadAsRecord)
                           [] OTHER -> Throw

\* With a reader type and neither a catalog entry nor a fallback: an error.
NoWriterForReader ==
  (codec.phase = "decodedReader" /\ codec.first = 0 /\ codec.reader # NoType
     /\ ~codec.known /\ codec.fallback = "none") => codec.decoded = Throw

\* The revision without a fallback, decoding a message with the magic byte.
WithoutFallback == codec.phase = "decoded"

C16_ReaderDefaults ==
  (codec.phase = "decodedReader" /\ codec.first = 0 /\ codec.reader = "recordDefault"
     /\ (codec.known \/ codec.fallback = "writer")
     /\ codec.type \in {"record", "recordAnother"}) =>
    codec.decoded = Decoded([name |-> codec.val.name, long |-> codec.val.long,
                             anotherString |-> IF codec.type = "record" THEN DefaultValue
                                               ELSE codec.val.anotherString])

\* a record written without the field, read with the default
C16_Witness ==
  /\ codec.phase = "decodedReader"
  /\ codec.first = 0
  /\ codec.reader = "recordDefault"
  /\ codec.type = "record"
  /\ codec.val.long = 540
  /\ codec.decoded.kind = "value"
  /\ codec.decoded.v.value.anotherString = DefaultValue
  /\ codec.decoded.v.value.name = codec.val.name

----------------------------------------------------------------------------
(* The subject naming strategies (lib/subject-strategy.js). A string is    *)
(* the sequence of its character codes.                                    *)

\* 'TopicRecordNameStrategy'
TOPIC_RECORD_NAME_STRATEGY ==
  << 84, 111, 112, 105, 99, 82, 101, 99, 111, 114, 100, 78, 97, 109, 101,
     83, 116, 114, 97, 116, 101, 103, 121 >>

\* 'TopicNameStrategy'
TOPIC_NAME_STRATEGY ==
  << 84, 111, 112, 105, 99, 78, 97, 109, 101, 83, 116, 114, 97, 116, 101,
     103, 121 >>

\* 'RecordNameStrategy'
RECORD_NAME_STRATEGY ==
  << 82, 101, 99, 111, 114, 100, 78, 97, 109, 101, 83, 116, 114, 97, 116,
     101, 103, 121 >>

\* Object.values(SUBJECT_STRATEGIES), in the order of the object's keys
SUBJECT_STRATEGIES ==
  << TOPIC_RECORD_NAME_STRATEGY, TOPIC_NAME_STRATEGY, RECORD_NAME_STRATEGY >>

\* An option that was not given (undefined), and one that was.
NoName == [set |-> FALSE, text |-> << >>]
Name(text) == [set |-> TRUE, text |-> text]

\* String.prototype.toLowerCase and toUpperCase, on ASCII
toLowerCase(str) ==
  [k \in DOMAIN str |-> IF str[k] \in 65..90 THEN str[k] + 32 ELSE str[k]]
toUpperCase(str) ==
  [k \in DOMAIN str |-> IF str[k] \in 97..122 THEN str[k] - 32 ELSE str[k]]

\* Array.prototype.toString: the elements, with commas between them
RECURSIVE ArrayToString(_)
ArrayToString(array) ==
  IF array = << >> THEN << >>
  ELSE IF Len(array) = 1 THEN array[1]
  ELSE array[1] \o << 44 >> \o ArrayToString(Tail(array))

\* `Invalid subject name strategy ${name}. Allowed strategies are ${...}`
InvalidStrategyText(name) ==
  << 73, 110, 118, 97, 108, 105, 100, 32, 115, 117, 98, 106, 101, 99, 116,
     32, 110, 97, 109, 101, 32, 115, 116, 114, 97, 116, 101, 103, 121, 32 >>
    \o name \o
  << 46, 32, 65, 108, 108, 111, 119, 101, 100, 32, 115, 116, 114, 97, 116,
     101, 103, 105, 101, 115, 32, 97, 114, 101, 32 >>
    \o ArrayToString(SUBJECT_STRATEGIES)

Error(message) == [kind |-> "throw", message |-> message]

\* value.toLowerCase() of every value of SUBJECT_STRATEGIES
LowerValues == [k \in DOMAIN SUBJECT_STRATEGIES |-> toLowerCase(SUBJECT_STRATEGIES[k])]

\* The first of the values that equals the name, or 0.
Matching(normalizedName, values) ==
  LET hits == {k \in DOMAIN values : values[k] = normalizedName}
  IN IF hits = {} THEN 0 ELSE CHOOSE k \in hits : \A j \in hits : k <= j

\* The constructor, matching the name as it is spelled.
SubjectNameStrategyExact(name) ==
  IF name.set /\ name.text # << >>
  THEN LET k == Matching(name.text, SUBJECT_STRATEGIES)
       IN IF k # 0 THEN Return([strategy |-> Name(SUBJECT_STRATEGIES[k])])
          ELSE Error(InvalidStrategyText(name.text))
  ELSE Return([strategy |-> NoName])

\* The constructor, taking a name it does not know for no name.
SubjectNameStrategyLenient(name) ==
  IF name.set /\ name.text # << >>
  THEN LET k == Matching(toLowerCase(name.text), LowerValues)
       IN IF k # 0 THEN Return([strategy |-> Name(SUBJECT_STRATEGIES[k])])
          ELSE Return([strategy |-> NoName])
  ELSE Return([strategy |-> NoName])

\* new SubjectNameStrategy(name): this.strategy is one of the three values,
\* or null (NoName).
SubjectNameStrategy(name) ==
  IF name.set /\ name.text # << >>
  THEN LET k == Matching(toLowerCase(name.text), LowerValues)
       IN IF k # 0 THEN Return([strategy |-> Name(SUBJECT_STRATEGIES[k])])
          ELSE Error(InvalidStrategyText(name.text))
  ELSE Return([strategy |-> NoName])

\* A payload: null, or a value with the name of its constructor and,
\* when it carries one, its __schemaName.
Null == [isNull |-> TRUE]
Payload(constructorName, schemaName) ==
  [isNull |-> FALSE, constructorName |-> constructorName, schemaName |-> schemaName]

\* data.constructor.name: a TypeError when data is null
ConstructorName(data) == IF data.isNull THEN Throw ELSE Return(data.constructorName)

\* prepareSubjectName with the record name in every strategy.
prepareSubjectNameAs(this, topicName, data) ==
  LET name == ConstructorName(data)
  IN IF name.kind = "throw" THEN Throw
     ELSE IF this.strategy = Name(RECORD_NAME_STRATEGY) THEN Return(name.v)
     ELSE Return(topicName \o << 45 >> \o name.v)

\* prepareSubjectName with the two record name strategies taken for each other.
prepareSubjectNameSwapped(this, topicName, data) ==
  LET name == ConstructorName(data)
  IN CASE this.strategy = Name(RECORD_NAME_STRATEGY) ->
            IF name.kind = "throw" THEN Throw
            ELSE Return(topicName \o << 45 >> \o name.v)
       [] this.strategy = Name(TOPIC_NAME_STRATEGY) -> Return(topicName)
       [] this.strategy = Name(TOPIC_RECORD_NAME_STRATEGY) ->
            IF name.kind = "throw" THEN Throw ELSE Return(name.v)
       [] OTHER -> Return(topicName)

\* SubjectNameStrategy.prototype.prepareSubjectName(topicName, data)
prepareSubjectName(this, topicName, data) ==
  LET name == ConstructorName(data)
  IN CASE this.strategy = Name(TOPIC_RECORD_NAME_STRATEGY) ->
            IF name.kind = "throw" THEN Throw
            ELSE Return(topicName \o << 45 >> \o name.v)
       [] this.strategy = Name(TOPIC_NAME_STRATEGY) -> Return(topicName)
       [] this.strategy = Name(RECORD_NAME_STRATEGY) ->
            IF name.kind = "throw" THEN Throw ELSE Return(name.v)
       [] OTHER -> Return(topicName)

\* The KafkaAvro constructor: the two strategies of srOpts, the key's first.
KafkaAvro(keySubjectStrategy, valueSubjectStrategy) ==
  LET key == SubjectNameStrategy(keySubjectStrategy)
      value == SubjectNameStrategy(valueSubjectStrategy)
  IN IF key.kind = "throw" THEN key
     ELSE IF value.kind = "throw" THEN value
     ELSE Return([keySubjectStrategy |-> key.v, valueSubjectStrategy |-> value.v])

\* sr.keySubjectStrategy of an instance whose constructor sets none: undefined
NoStrategy == [undefined |-> TRUE]

\* prepareSubject of the producer; the call on an undefined strategy is a
\* TypeError.
prepareSubject(srOpts, isKey, topicName, data) ==
  LET strategy == IF isKey THEN srOpts.keySubjectStrategy ELSE srOpts.valueSubjectStrategy
  IN IF "strategy" \notin DOMAIN strategy THEN Throw
     ELSE prepareSubjectName(strategy, topicName, data)

(* The names a configuration may give *)

\* The name with the case of its k-th letter changed.
FlipCase(str, k) ==
  [str EXCEPT ![k] = IF @ \in 65..90 THEN @ + 32 ELSE IF @ \in 97..122 THEN @ - 32 ELSE @]

\* Spellings of a canonical name that differ from it in case only.
Variants(canonical) ==
  {canonical, toLowerCase(canonical), toUpperCase(canonical)}
    \cup {FlipCase(canonical, k) : k \in DOMAIN canonical}

CanonicalNames == Range(SUBJECT_STRATEGIES)

\* Names that are none of the three: "bogus", a name cut short, a name with
\* one more character, a name after a space.
BogusNames ==
  { << 98, 111, 103, 117, 115 >> }
    \cup {SubSeq(c, 1, Len(c) - 1) : c \in CanonicalNames}
    \cup {c \o << 88 >> : c \in CanonicalNames}
    \cup {<< 32 >> \o c : c \in CanonicalNames}

AllNames ==
  {NoName, Name(<< >>)} \cup {Name(t) : t \in (UNION {Variants(c) : c \in CanonicalNames})
                                                \cup BogusNames}

FewNames == {NoName, Name(RECORD_NAME_STRATEGY), Name(<< 98, 111, 103, 117, 115 >>)}

\* "orders", "a-b"
Topics == { << 111, 114, 100, 101, 114, 115 >>, << 97, 45, 98 >> }

\* new Student() with __schemaName 'org.test.Student', new Student()
\* without it, plain objects with the __schemaName 'Student' and without
\* one, a string, and null.
Payloads ==
  {Payload(<< 83, 116, 117, 100, 101, 110, 116 >>, Name(<< 111, 114, 103, 46, 116, 101, 115, 116, 46, 83, 116, 117, 100, 101, 110, 116 >>)),
    Payload(<< 83, 116, 117, 100, 101, 110, 116 >>, NoName),
    Payload(<< 79, 98, 106, 101, 99, 116 >>, Name(<< 83, 116, 117, 100, 101, 110, 116 >>)),
    Payload(<< 79, 98, 106, 101, 99, 116 >>, NoName),
    Payload(<< 83, 116, 114, 105, 110, 103 >>, NoName),
    Null}

NamingInit ==
  /\ CatalogUnused
  /\ pool = << >>
  /\ codec = << >>
  /\ client = << >>
  /\ naming = [phase |-> "idle"]

\* new KafkaAvro({keySubjectStrategy, valueSubjectStrategy})
NamingNew(keyName, valueName) ==
  /\ naming.phase = "idle"
  /\ naming' = [phase |-> "constructed", keyName |-> keyName, valueName |-> valueName,
                out |-> KafkaAvro(keyName, valueName)]
  /\ UNCHANGED <<catVars, pool, codec, client>>

\* The producer asks for the subject of a key or of a value.
NamingPrepare(isKey, topicName, data) ==
  /\ naming.phase = "constructed"
  /\ naming.out.kind = "value"
  /\ naming' = [naming EXCEPT !.phase = "prepared"] @@
                [isKey |-> isKey, topicName |-> topicName, data |-> data,
                 subject |-> prepareSubject(naming.out.v, isKey, topicName, data)]
  /\ UNCHANGED <<catVars, pool, codec, client>>

NamingNext ==
  \/ \E n \in AllNames : \E m \in FewNames : NamingNew(n, m)
  \/ \E n \in AllNames : \E m \in FewNames : NamingNew(m, n)
  \/ \E isKey \in BOOLEAN : \E topicName \in Topics : \E data \in Payloads :
       NamingPrepare(isKey, topicName, data)

SpecNaming == NamingInit /\ [][NamingNext]_vars

----------------------------------------------------------------------------
(* Claims about the subject naming strategies (SpecNaming) *)

Prepared == naming.phase = "prepared"

\* The configured name of the strategy that prepared the subject.
UsedName == IF naming.isKey THEN naming.keyName ELSE naming.valueName

RecordNameFamily == {Name(TOPIC_RECORD_NAME_STRATEGY), Name(RECORD_NAME_STRATEGY)}

\* topic + "-" + recordName, or recordName alone
Composed(recordName) ==
  IF UsedName = Name(TOPIC_RECORD_NAME_STRATEGY)
  THEN Return(naming.topicName \o << 45 >> \o recordName)
  ELSE Return(recordName)

AfterLast(str, ch) ==
  LET at == {k \in DOMAIN str : str[k] = ch}
  IN IF at = {} THEN str
     ELSE SubSeq(str, (CHOOSE k \in at : \A j \in at : j <= k) + 1, Len(str))

\* The pieces of a text between the occurrences of a character.
RECURSIVE Split(_, _)
Split(str, ch) ==
  LET at == {k \in DOMAIN str : str[k] = ch}
  IN IF at = {} THEN << str >>
     ELSE LET first == CHOOSE k \in at : \A j \in at : k <= j
          IN << SubSeq(str, 1, first - 1) >> \o Split(SubSeq(str, first + 1, Len(str)), ch)

Bogus(name) == name.set /\ name.text \in BogusNames

\* C19: with a key or value strategy name that is none of the three, the
\* KafkaAvro constructor fails, and the error text ends with the list of
\* the three valid names.
C19_InvalidNameFails ==
  (naming.phase = "constructed" /\ (Bogus(naming.keyName) \/ Bogus(naming.valueName))) =>
    /\ naming.out.kind = "throw"
    /\ Range(Split(AfterLast(naming.out.message, 32), 44)) = CanonicalNames
    /\ Len(Split(AfterLast(naming.out.message, 32), 44)) = 3

\* only the value's strategy name is invalid
C19_Witness ==
  /\ naming.phase = "constructed"
  /\ naming.keyName = NoName
  /\ naming.valueName = Name(<< 98, 111, 103, 117, 115 >>)
  /\ naming.out.kind = "throw"

VariantNames == UNION {Variants(c) : c \in CanonicalNames}
CanonOf(text) == CHOOSE c \in CanonicalNames : text \in Variants(c)
IsVariant(name) == name.set /\ name.text \in VariantNames

\* C20: a name that differs from a canonical name in case only constructs
\* the strategy of the canonical name, and every subject it prepares is the
\* one the canonical name's strategy prepares.
C20_CaseInsensitive ==
  /\ (naming.phase = "constructed" /\ naming.out.kind = "value") =>
       /\ IsVariant(naming.keyName) =>
            naming.out.v.keySubjectStrategy.strategy = Name(CanonOf(naming.keyName.text))
       /\ IsVariant(naming.valueName) =>
            naming.out.v.valueSubjectStrategy.strategy = Name(CanonOf(naming.valueName.text))
  /\ (naming.phase = "constructed" /\ ~Bogus(naming.keyName) /\ ~Bogus(naming.valueName)) =>
       naming.out.kind = "value"
  /\ (Prepared /\ IsVariant(UsedName)) =>
       naming.subject = prepareSubjectName([strategy |-> Name(CanonOf(UsedName.text))],
                                           naming.topicName, naming.data)

\* "TOPICRECORDNAMESTRATEGY" for the values
C20_Witness ==
  /\ Prepared
  /\ ~naming.isKey
  /\ naming.valueName = Name(toUpperCase(TOPIC_RECORD_NAME_STRATEGY))
  /\ naming.topicName = << 97, 45, 98 >>
  /\ naming.data = Payload(<< 79, 98, 106, 101, 99, 116 >>, NoName)
  /\ naming.subject = Return(<< 97, 45, 98, 45, 79, 98, 106, 101, 99, 116 >>)

----------------------------------------------------------------------------
(* The wrappers of produce() and of the "data" event, over the catalog.    *)
(* JavaScript values: null, strings, numbers, and objects with the name of *)
(* their constructor and their own properties in insertion order.          *)

JsNull == [t |-> "null"]
Str(text) == [t |-> "string", v |-> text]
Num(n) == [t |-> "number", n |-> n]
Obj(constructorName, members) ==
  [t |-> "object", constructorName |-> constructorName, members |-> members]
Member(key, value) == [key |-> key, value |-> value]

\* key in data, data[key], delete data[key]
Has(data, key) ==
  data.t = "object" /\ \E k \in DOMAIN data.members : data.members[k].key = key
Get(data, key) ==
  data.members[CHOOSE k \in DOMAIN data.members : data.members[k].key = key].value
Delete(data, key) ==
  IF data.t = "object"
  THEN [data EXCEPT !.members = SelectSeq(@, LAMBDA m : m.key # key)]
  ELSE data

\* A value in a condition: null, '' and 0 are falsy.
Truthy(data) ==
  ~ \/ data.t = "null"
    \/ data.t = "string" /\ data.v = << >>
    \/ data.t = "number" /\ data.n = 0

\* The characters of the property names.
KeyCodes(key) ==
  CASE key = "name" -> << 110, 97, 109, 101 >>
    [] key = "long" -> << 108, 111, 110, 103 >>
    [] key = "anotherString" ->
         << 97, 110, 111, 116, 104, 101, 114, 83, 116, 114, 105, 110, 103 >>
    [] key = "__schemaName" -> << 95, 95, 115, 99, 104, 101, 109, 97, 78, 97, 109, 101 >>
    [] key = "__id" -> << 95, 95, 105, 100 >>

\* The decimal digits of a number.
RECURSIVE Digits(_)
Digits(n) == IF n < 10 THEN << 48 + n >> ELSE Digits(n \div 10) \o << 48 + (n % 10) >>

NumberText(n) == IF n < 0 THEN << 45 >> \o Digits(-n) ELSE Digits(n)

\* A string between double quotes (no character of the model needs an escape).
Quote(text) == << 34 >> \o text \o << 34 >>

ValueText(value) ==
  CASE value.t = "string" -> Quote(value.v)
    [] value.t = "number" -> NumberText(value.n)
    [] OTHER -> << 110, 117, 108, 108 >>

RECURSIVE MembersText(_)
MembersText(members) ==
  IF members = << >> THEN << >>
  ELSE Quote(KeyCodes(Head(members).key)) \o << 58 >> \o ValueText(Head(members).value)
         \o (IF Tail(members) = << >> THEN << >> ELSE << 44 >> \o MembersText(Tail(members)))

\* JSON.stringify(data): {"key":value,...} for an object
JSONstringify(data) ==
  IF data.t = "object" THEN << 123 >> \o MembersText(data.members) \o << 125 >>
  ELSE ValueText(data)

\* new Buffer(string): the UTF-8 bytes of the characters
RECURSIVE Utf8(_)
Utf8(text) ==
  IF text = << >> THEN << >>
  ELSE (IF Head(text) < 128 THEN << Head(text) >>
        ELSE << 192 + (Head(text) \div 64), 128 + (Head(text) % 64) >>) \o Utf8(Tail(text))

\* buffer.toString(): a byte that is no UTF-8 gives U+FFFD
RECURSIVE Utf8Decode(_)
Utf8Decode(bytes) ==
  IF bytes = << >> THEN << >>
  ELSE IF Head(bytes) < 128 THEN << Head(bytes) >> \o Utf8Decode(Tail(bytes))
  ELSE IF Head(bytes) \in 194..223 /\ Len(bytes) >= 2 /\ bytes[2] \in 128..191
    THEN << (Head(bytes) - 192) * 64 + (bytes[2] - 128) >> \o Utf8Decode(Tail(Tail(bytes)))
  ELSE << 65533 >> \o Utf8Decode(Tail(bytes))

(* The producer (part_004) *)

\* The characters of the catalog's subjects.
SubjectCodes(s) ==
  CASE s = "a-value" -> << 97, 45, 118, 97, 108, 117, 101 >>
    [] s = "b-value" -> << 98, 45, 118, 97, 108, 117, 101 >>

\* The Avro type of a parsed schema: the versions of a-value are the record
\* {name: string, long: long}, the versions of b-value are a long.
AvroType(type) ==
  IF type.def \div 10 = SubjectIndex("a-value") THEN "record" ELSE "long"

\* dict[subject]: the entry, or undefined
Lookup(dict, subject) ==
  LET hits == {s \in DOMAIN dict : SubjectCodes(s) = subject}
  IN IF hits = {} THEN [found |-> FALSE]
     ELSE [found |-> TRUE, v |-> dict[CHOOSE s \in hits : TRUE]]

\* sr.schemaTypeById['schema-' + id]
LookupId(byId, id) ==
  IF id.t = "number" /\ id.n \in DOMAIN byId THEN [found |-> TRUE, v |-> byId[id.n]]
  ELSE [found |-> FALSE]

\* The flag of the KafkaAvro constructor, by revision: lib/kafka-avro.js
\* stores it as _shouldFailWhenSchemaIsMissing, part_001 as
\* __shouldFailWhenSchemaIsMissing.
ShouldFailField(revision, shouldFailWhenSchemaIsMissing) ==
  IF revision = "part_001"
  THEN [f \in {"__shouldFailWhenSchemaIsMissing"} |-> shouldFailWhenSchemaIsMissing = TRUE]
  ELSE [f \in {"_shouldFailWhenSchemaIsMissing"} |-> shouldFailWhenSchemaIsMissing = TRUE]

\* this.__shouldFailWhenSchemaIsMissing, undefined (falsy) when never assigned
ShouldFail(this) ==
  IF "__shouldFailWhenSchemaIsMissing" \in DOMAIN this.fields
  THEN this.fields["__shouldFailWhenSchemaIsMissing"]
  ELSE FALSE

\* The payload as the naming strategy looks at it.
AsPayload(data) ==
  CASE data.t = "object" ->
         Payload(data.constructorName,
                 IF Has(data, "__schemaName") /\ Get(data, "__schemaName").t = "string"
                 THEN Name(Get(data, "__schemaName").v) ELSE NoName)
    [] data.t = "string" -> Payload(<< 83, 116, 114, 105, 110, 103 >>, NoName)
    [] data.t = "number" -> Payload(<< 78, 117, 109, 98, 101, 114 >>, NoName)
    [] OTHER -> Null

\* Whether avsc writes the value with the type: a long is a number, a string
\* a string, a record an object with every field of the schema, each of its
\* type (a field with a default may be missing). Other properties are ignored.
isValid(type, data) ==
  CASE type = "long" -> data.t = "number"
    [] type = "string" -> data.t = "string"
    [] OTHER ->
         /\ data.t = "object"
         /\ \A f \in Range(Fields(type)) :
              IF Has(data, f.name)
              THEN Get(data, f.name).t = (IF f.type = "long" THEN "number" ELSE "string")
              ELSE f.hasDefault

\* The number or the characters of a value.
Raw(value) == IF value.t = "number" THEN value.n ELSE value.v

\* The value as the type writes it.
ToAvro(type, data) ==
  IF type \in RecordTypes
  THEN [n \in FieldNames(type) |->
          IF Has(data, n) THEN Raw(Get(data, n)) ELSE FieldOf(type, n).default]
  ELSE Raw(data)

\* Producer.prototype.serialize with a fallback to JSON for an invalid value.
serializeAs(type, schemaId, value, fill) ==
  IF ~isValid(type, value) THEN Return(Utf8(JSONstringify(value)))
  ELSE toMessageBuffer(ToAvro(type, value), type, schemaId, 0, fill)

\* Producer.prototype.serialize: type.encode throws on a value that is not
\* valid for the type.
serialize(type, schemaId, value, fill) ==
  IF ~isValid(type, value) THEN Throw
  ELSE toMessageBuffer(ToAvro(type, value), type, schemaId, 0, fill)

\* delete data.__schemaName; delete data.__id, left out
DeleteTagsAs(data) == data

\* delete data.__schemaName; delete data.__id
DeleteTags(data) == Delete(Delete(data, "__schemaName"), "__id")

\* new Buffer(data) for a value that is no object: the bytes of a string;
\* for a number, a buffer of that many bytes, of whatever the memory holds
\* (a RangeError for a negative size).
BufferOf(data, fill) ==
  CASE data.t = "string" -> Return(Utf8(data.v))
    [] data.t = "number" -> IF data.n < 0 THEN Throw ELSE Return(NewBuffer(data.n, fill))
    [] OTHER -> Throw

\* Producer.prototype._serializeType. With data.__id the subject stays null,
\* sr.schemaIds[null] is undefined and the header's schema id is written as 0.
serializeType(this, cat, topicName, isKey, data, fill) ==
  LET hasId == Has(data, "__id") /\ Get(data, "__id").t # "null"
      subject == IF hasId THEN ReturnNull
                 ELSE prepareSubject(this.srOpts, isKey, topicName, AsPayload(data))
      schema == IF hasId THEN LookupId(cat.schemaTypeById, Get(data, "__id"))
                ELSE IF subject.kind = "value" THEN Lookup(cat.schemas, subject.v)
                ELSE [found |-> FALSE]
  IN IF subject.kind = "throw" THEN Throw
     ELSE IF ~schema.found
     THEN IF ShouldFail(this) THEN Throw
          ELSE IF data.t = "object" THEN Return(Utf8(JSONstringify(DeleteTags(data))))
          ELSE BufferOf(data, fill)
     ELSE LET schemaId == IF hasId THEN 0 ELSE Lookup(cat.schemaIds, subject.v).v
          IN serialize(AvroType(schema.v), schemaId, data, fill)

\* Producer.prototype._produceWrapper: what is handed to the produce of
\* node-rdkafka, unless serializing the key or the value throws.
produceWrapper(this, cat, topicName, value, key, fill) ==
  LET sendKey == IF Truthy(key) THEN serializeType(this, cat, topicName, TRUE, key, fill)
                 ELSE ReturnNull
      sendValue == IF Truthy(value) THEN serializeType(this, cat, topicName, FALSE, value, fill)
                   ELSE ReturnNull
  IN IF sendKey.kind = "throw" \/ sendValue.kind = "throw" THEN Throw
     ELSE Return([topicName |-> topicName, sendValue |-> sendValue, sendKey |-> sendKey])

(* The consumer (lib/kafka-consumer.js) *)

\* message.key and message.value: null, or a buffer
Buf(bytes) == [t |-> "buffer", v |-> bytes]

ObjectName == << 79, 98, 106, 101, 99, 116 >>
StudentName == << 83, 116, 117, 100, 101, 110, 116 >>

NameAndLong == << Member("name", Str(<< 48 >>)), Member("long", Num(540)) >>

\* {name: '0', long: 540}
PlainRecord == Obj(ObjectName, NameAndLong)

\* The values whose JSON text a message of the model may hold.
JsonValues ==
  {PlainRecord, Obj(ObjectName, << Member("name", Str(<< 48 >>)) >>),
   Obj(ObjectName, << Member("name", Str(<< 48 >>)), Member("long", Str(<< 53, 52, 48 >>)) >>),
   Num(0), Num(7), Num(540), Str(<< 48 >>)}

\* JSON.parse(text): the value the text stands for; a SyntaxError for a text
\* that is no JSON (every text of the model is the JSON text of one of
\* JsonValues, or is no JSON at all).
JSONparse(text) ==
  IF \E v \in JsonValues : JSONstringify(v) = text
  THEN Return(CHOOSE v \in JsonValues : JSONstringify(v) = text)
  ELSE Throw

\* A property of the message that was not assigned.
Unset == [kind |-> "undefined"]

\* The catch block: JSON.parse(part.toString()), or the string itself on a
\* SyntaxError; nothing is assigned for a null part.
JsonOrText(part) ==
  IF part.t = "null" THEN Unset
  ELSE LET text == Utf8Decode(part.v)
           parsed == JSONparse(text)
       IN IF parsed.kind = "throw" THEN [kind |-> "text", v |-> text]
          ELSE [kind |-> "json", v |-> parsed.v]

\* One try/catch of the "data" listener: the part is decoded, and on any
\* error (fromMessageBuffer threw, or returned null, whose .value is a
\* TypeError) the catch block runs. A decoded value of undefined is assigned
\* as it is.
DecodePart(part, byId) ==
  LET decoded == IF part.t = "null" THEN ReturnNull ELSE fromMessageBuffer(part.v, byId)
  IN IF decoded.kind = "value"
     THEN [parsed |-> IF TypeDecode(byId[decoded.v.schemaId], part.v, 5).offset < 0
                      THEN Unset
                      ELSE [kind |-> "avro", v |-> decoded.v.value],
           schemaId |-> Return(decoded.v.schemaId)]
     ELSE [parsed |-> JsonOrText(part), schemaId |-> Unset]

\* sr.schemaTypeById, with the Avro type of every parsed schema
ById(cat) == [i \in DOMAIN cat.schemaTypeById |-> AvroType(cat.schemaTypeById[i])]

\* The user's callback, by what its first and its second call do.
Callbacks == {<< "returns", "returns" >>, << "throws", "throws" >>, << "throws", "returns" >>}

\* The end of the listener, with the key and the value as their try and
\* catch left them: cb(message) is the last statement of the try block of
\* the value, so when it throws, the catch block of that try runs, assigns
\* message.parsed (`again`) and calls cb(message) once more
\* (kafka-consumer.js 283 and 301); what the call in the catch block throws
\* leaves the listener.
Deliver(key, value, fallback, cb) ==
  LET inTry == value.schemaId.kind = "value"
  IN [parsedKey |-> key.parsed, schemaIdKey |-> key.schemaId,
      parsed |-> value.parsed, schemaId |-> value.schemaId,
      delivered |-> IF inTry /\ cb[1] = "throws" THEN 2 ELSE 1,
      again |-> IF inTry /\ cb[1] = "throws" THEN fallback ELSE Unset,
      threw |-> IF inTry THEN cb[1] = "throws" /\ cb[2] = "throws" ELSE cb[1] = "throws"]

\* The listener that _onWrapper registers for "data": the message as the
\* user's callback gets it on its first call, and how many times the callback
\* is called.
onData(cat, message, cb) ==
  Deliver(DecodePart(message.key, ById(cat)), DecodePart(message.value, ById(cat)),
          JsonOrText(message.value), cb)

----------------------------------------------------------------------------
(* Consumer.prototype.deserialize, for the messages of a stream: a message *)
(* that a producer encoded, as it is, cut short, or replaced.              *)

\* magicByte.fromMessageBuffer(type, deserializeType, this.sr) as deserialize
\* calls it. The revision (type, encodedMessage, sr) decodes the message,
\* and throws a TypeError on a null message (null[0]). The revision
\* (encodedMessage, sr) of lib/magic-byte.js takes the type for the
\* message: type[0] is undefined, no magic byte, and it returns null.
fromMessageBufferCall(revision, type, part, byId) ==
  IF revision = "current" THEN ReturnNull
  ELSE IF part.t = "null" THEN Throw
  ELSE fromMessageBufferWriter(type, part.v, byId)

\* Consumer.prototype.deserialize without its try and catch.
deserializeAs(revision, type, message, isKey, byId) ==
  fromMessageBufferCall(revision, type, IF isKey THEN message.key ELSE message.value, byId)

\* Consumer.prototype.deserialize: what fromMessageBuffer returns, or null
\* when it throws.
deserialize(revision, type, message, isKey, byId) ==
  LET deserializeType == IF isKey THEN message.key ELSE message.value
      decoded == fromMessageBufferCall(revision, type, deserializeType, byId)
  IN IF decoded.kind = "throw" THEN ReturnNull ELSE decoded

\* Consumer.prototype._deserializeType
deserializeType(revision, type, data, isKey, byId) ==
  LET decoded == deserialize(revision, type, data, isKey, byId)
  IN IF decoded.kind = "throw" THEN Throw
     ELSE Return([value |-> IF decoded.kind = "null" THEN ReturnNull
                            ELSE Return(decoded.v.value),
                  schemaId |-> IF decoded.kind = "null" THEN ReturnNull
                               ELSE Return(decoded.v.schemaId)])

\* What may arrive in place of an encoded message: nothing, an empty
\* buffer, the message cut within its header, cut before its last byte,
\* whole, or with another first byte.
ArrivingParts(buf) ==
  {JsNull, Buf(<< >>), Buf(Slice(buf, 3)), Buf(Slice(buf, Len(buf) - 1)), Buf(buf),
   Buf(Garble(buf, 255))}

\* The two revisions of magicByte.fromMessageBuffer in lib/magic-byte.js.
CalledRevisions == {"current", "writer"}

\* A message of the stream goes through _deserializeType, as the key or as
\* the value.
CodecDeserialize(part, isKey, known, fallback, revision) ==
  /\ codec.phase = "encoded"
  /\ codec.out.kind = "value"
  /\ LET message == IF isKey THEN [key |-> part, value |-> JsNull]
                    ELSE [key |-> JsNull, value |-> part]
     IN codec' = [codec EXCEPT !.phase = "deserialized"] @@
                  [part |-> part, isKey |-> isKey, known |-> known, fallback |-> fallback,
                   revision |-> revision,
                   decoded |-> deserialize(revision, FallbackOf(fallback), message, isKey,
                                           ByIdOf(known)),
                   result |-> deserializeType(revision, FallbackOf(fallback), message, isKey,
                                              ByIdOf(known))]
  /\ UNCHANGED <<catVars, pool, naming, client>>

DeserializeNext ==
  \/ \E type \in Types : \E val \in ValuesOf(type) : \E schemaId \in {109, -1} :
       CodecEncode(type, val, schemaId, 0, 0)
  \/ /\ codec.phase = "encoded"
     /\ codec.out.kind = "value"
     /\ \E part \in ArrivingParts(codec.out.v) : \E isKey \in BOOLEAN : \E known \in BOOLEAN :
          \E fallback \in Fallbacks : \E revision \in CalledRevisions :
            CodecDeserialize(part, isKey, known, fallback, revision)

SpecDeserialize == CodecInit /\ [][DeserializeNext]_vars

\* C37: deserialize() never throws. It returns what fromMessageBuffer
\* returned, an object with value and schemaId, or null: null when
\* fromMessageBuffer threw (no message, no magic byte, a header cut short,
\* no type to decode with); and _deserializeType returns value and schemaId
\* of that object, or both null when deserialize() returned null. A whole
\* message whose type is known is decoded by the revision that takes a type.
C37_DeserializeNeverThrows ==
  codec.phase = "deserialized" =>
    /\ codec.decoded.kind \in {"value", "null"}
    /\ codec.result.kind = "value"
    /\ codec.decoded.kind = "null" =>
         codec.result.v = [value |-> ReturnNull, schemaId |-> ReturnNull]
    /\ codec.decoded.kind = "value" =>
         /\ codec.result.v.value = Return(codec.decoded.v.value)
         /\ codec.result.v.schemaId = Return(codec.schemaId)
    /\ (codec.part.t = "null" \/ ~hasMagicByte(codec.part.v) \/ Len(codec.part.v) < 5) =>
         codec.decoded.kind = "null"
    /\ (codec.revision = "writer" /\ codec.part = Buf(codec.out.v) /\ codec.known) =>
         codec.decoded = Return([value |-> codec.val, schemaId |-> codec.schemaId])

\* a message cut within its header went through the revision that takes a
\* type, with the writer's type as the fallback and in the catalog
C37_Witness ==
  /\ codec.phase = "deserialized"
  /\ codec.revision = "writer"
  /\ codec.known /\ codec.fallback = "writer"
  /\ codec.part.t = "buffer" /\ Len(codec.part.v) = 3
  /\ codec.decoded = ReturnNull
  /\ codec.result.v = [value |-> ReturnNull, schemaId |-> ReturnNull]

----------------------------------------------------------------------------
(* One KafkaAvro instance with its catalog: init() runs while the user     *)
(* produces one message, or one message arrives.                           *)

ClientOptions ==
  [fetchAllVersions : {FALSE}, selectedTopics : {List(Subjects)},
   fetchRefreshRate : {0}, malformed : {{}}, parseOptions : {NoParseOptions}]

Revisions == {"kafka-avro.js", "part_001"}

\* The strategies of the constructor, by revision: part_001 makes them of
\* the options (here the defaults), lib/kafka-avro.js passes none to the
\* SchemaRegistry.
StrategiesOf(revision) ==
  IF revision = "part_001" THEN KafkaAvro(NoName, NoName).v
  ELSE [keySubjectStrategy |-> NoStrategy, valueSubjectStrategy |-> NoStrategy]

\* new KafkaAvro({shouldFailWhenSchemaIsMissing})
NewClient(revision, shouldFailWhenSchemaIsMissing) ==
  [phase |-> "idle", revision |-> revision,
   shouldFailWhenSchemaIsMissing |-> shouldFailWhenSchemaIsMissing,
   this |-> [fields |-> ShouldFailField(revision, shouldFailWhenSchemaIsMissing),
             srOpts |-> StrategiesOf(revision)]]

ClientInit ==
  /\ InitCatalog(ClientOptions)
  /\ pool = << >>
  /\ codec = << >>
  /\ naming = << >>
  /\ client \in {NewClient(revision, b) : revision \in Revisions, b \in BOOLEAN}

\* "a-value", "b-value", and "c", which has no subject
ProduceTopics == {SubjectCodes("a-value"), SubjectCodes("b-value"), << 99 >>}

SchemaNameTag == Member("__schemaName", Str(StudentName))

\* {name, long}; new Student() with a __schemaName; long as a string; long
\* missing; with the __id of a-value's first version; with a __schemaName and
\* an unknown __id; 'hello'; 540; 0; null
ProduceValues ==
  {PlainRecord,
   Obj(StudentName, << SchemaNameTag >> \o NameAndLong),
   Obj(ObjectName, << Member("name", Str(<< 48 >>)), Member("long", Str(<< 53, 52, 48 >>)) >>),
   Obj(ObjectName, << Member("name", Str(<< 48 >>)) >>),
   Obj(ObjectName, << Member("__id", Num(SchemaId("a-value", 1))) >> \o NameAndLong),
   Obj(StudentName, << SchemaNameTag, Member("__id", Num(99)) >> \o NameAndLong),
   Str(<< 104, 101, 108, 108, 111 >>), Num(540), Num(0), JsNull}

\* null; 7; {name, long}; new Student() without long
ProduceKeys ==
  {JsNull, Num(7), PlainRecord,
   Obj(StudentName, << Member("name", Str(<< 48 >>)), SchemaNameTag >>)}

\* What the memory of a new buffer may hold; it shows for new Buffer(number).
FillsFor(value, key) ==
  IF value.t = "number" \/ key.t = "number" THEN Fills ELSE {0}

\* The registry gets the first version of a subject before init().
PublishFirst(s) == nver[s] = 0 /\ PublishBefore(s)

\* producer.produce(topicName, partition, value, key); `cat` keeps the
\* catalog as the call found it.
ClientProduce(topicName, value, key, fill) ==
  /\ client.phase = "idle"
  /\ client' = [client EXCEPT !.phase = "produced"] @@
                [topicName |-> topicName, value |-> value, key |-> key, cat |-> sr,
                 out |-> produceWrapper(client.this, sr, topicName, value, key, fill)]
  /\ UNCHANGED <<catVars, pool, codec, naming>>

\* The messages of a topic: none (null), empty, 'hello', '540', the JSON text
\* of {name, long}, a-value's record and b-value's long in the wire format,
\* the record under an unknown schema id, a header cut short, a record cut
\* short after the header, and bytes that are no text.
ConsumedParts ==
  {JsNull, Buf(<< >>), Buf(<< 104, 101, 108, 108, 111 >>), Buf(<< 53, 52, 48 >>),
   Buf(Utf8(JSONstringify(PlainRecord))),
   Buf(<< 0, 0, 0, 0, 11, 2, 48, 184, 8 >>),
   Buf(<< 0, 0, 0, 0, 21, 14 >>),
   Buf(<< 0, 0, 0, 0, 99, 2, 48, 184, 8 >>),
   Buf(<< 0, 0, 0 >>),
   Buf(<< 0, 0, 0, 0, 11, 2 >>),
   Buf(<< 255, 104, 105 >>)}

ConsumedKeys ==
  {JsNull, Buf(<< 48 >>), Buf(<< 0, 0, 0, 0, 21, 14 >>), Buf(<< 0, 0, 0 >>),
   Buf(<< 0, 0, 0, 0, 11, 2 >>)}

\* The callbacks tried with a key: the key is decoded before the callback
\* is called and changes nothing of it, so the ones that throw are tried
\* with messages without a key.
CallbacksFor(key) ==
  IF key.t = "null" THEN Callbacks ELSE {<< "returns", "returns" >>}

\* The "data" listener with a lookup that notes the ids it did not find.
ClientConsumeAs(key, value, cb) ==
  /\ client.phase = "idle"
  /\ client' = [client EXCEPT !.phase = "consumed"] @@
                [message |-> [key |-> key, value |-> value], cat |-> sr, cb |-> cb,
                 out |-> onData(sr, [key |-> key, value |-> value], cb)]
  /\ sr' = [sr EXCEPT !.schemaTypeById =
                         IF value.t = "buffer" /\ Len(value.v) >= 5
                            /\ readInt32BE(value.v, 1) \notin DOMAIN @
                         THEN Put(@, readInt32BE(value.v, 1), [def |-> 0]) ELSE @]
  /\ UNCHANGED <<opts, nver, refreshHandle, run, nruns, disposed, faults, pool, codec, naming>>

\* node-rdkafka emits "data" with a message; the user registered cb.
ClientConsume(key, value, cb) ==
  /\ client.phase = "idle"
  /\ client' = [client EXCEPT !.phase = "consumed"] @@
                [message |-> [key |-> key, value |-> value], cat |-> sr, cb |-> cb,
                 out |-> onData(sr, [key |-> key, value |-> value], cb)]
  /\ UNCHANGED <<catVars, pool, codec, naming>>

ClientNext ==
  \/ \E s \in SubjectSet : PublishFirst(s)
  \/ InitCall
  \/ Answer
  \/ \E topicName \in ProduceTopics : \E value \in ProduceValues : \E key \in ProduceKeys :
       \E fill \in FillsFor(value, key) : ClientProduce(topicName, value, key, fill)
  \/ \E key \in ConsumedKeys : \E value \in ConsumedParts : \E cb \in CallbacksFor(key) :
       ClientConsume(key, value, cb)

SpecClient == ClientInit /\ [][ClientNext]_vars

----------------------------------------------------------------------------
(* Claims about the produce and "data" wrappers (SpecClient) *)

Produced == client.phase = "produced"
Consumed == client.phase = "consumed"

\* The schema the catalog held for a key or a value of the produced
\* message: the one of its __id, or the one of the topic's subject (the
\* default strategy names the subject after the topic).
SchemaOf(data) ==
  IF Has(data, "__id") THEN LookupId(client.cat.schemaTypeById, Get(data, "__id"))
  ELSE Lookup(client.cat.schemas, client.topicName)

\* The key or value is to be serialized, and the catalog has no schema for it.
NoSchema(data) == Truthy(data) /\ ~SchemaOf(data).found

\* The key or value is to be serialized with a schema it does not conform to.
NotConforming(data) ==
  /\ Truthy(data)
  /\ SchemaOf(data).found
  /\ ~isValid(AvroType(SchemaOf(data).v), data)

\* What was handed is the data untyped: the JSON text of an object, the
\* bytes of a string.
SentUntyped(data, sent) ==
  /\ sent.kind = "value"
  /\ CASE data.t = "object" -> sent.v = Utf8(JSONstringify(DeleteTags(data)))
       [] data.t = "string" -> sent.v = Utf8(data.v)
       [] OTHER -> TRUE

\* C21: when the key or the value of a produce call has no schema in the
\* catalog, the call throws if the instance was constructed with
\* shouldFailWhenSchemaIsMissing: true; otherwise (and unless the other part
\* fails its own schema) the call hands the data over untyped.
C21_MissingSchemaPolicy ==
  (Produced /\ (NoSchema(client.key) \/ NoSchema(client.value))) =>
    IF client.shouldFailWhenSchemaIsMissing
    THEN client.out.kind = "throw"
    ELSE (~NotConforming(client.key) /\ ~NotConforming(client.value)) =>
           /\ client.out.kind = "value"
           /\ NoSchema(client.key) => SentUntyped(client.key, client.out.v.sendKey)
           /\ NoSchema(client.value) => SentUntyped(client.value, client.out.v.sendValue)

\* The bytes hold the text somewhere.
Contains(bytes, text) ==
  \E k \in 0..(Len(bytes) - Len(text)) : SubSeq(bytes, k + 1, k + Len(text)) = text

\* The key or value goes through the JSON fallback: an object without schema.
ViaJson(data) == NoSchema(data) /\ data.t = "object"

TagFree(sent) ==
  /\ sent.kind = "value"
  /\ ~Contains(sent.v, KeyCodes("__schemaName"))
  /\ ~Contains(sent.v, KeyCodes("__id"))

\* C22: the bytes of a payload that is sent through the JSON fallback hold
\* neither its __schemaName nor its __id.
C22_TagsNeverLeak ==
  (Produced /\ client.out.kind = "value") =>
    /\ ViaJson(client.key) => TagFree(client.out.v.sendKey)
    /\ ViaJson(client.value) => TagFree(client.out.v.sendValue)

\* a value with both properties, and a key with a __schemaName, were sent as JSON
C22_Witness ==
  /\ Produced /\ client.out.kind = "value"
  /\ ViaJson(client.value) /\ ViaJson(client.key)
  /\ Has(client.value, "__schemaName") /\ Has(client.value, "__id")
  /\ Has(client.key, "__schemaName")
  /\ client.out.v.sendValue.v = Utf8(JSONstringify(PlainRecord))

\* C23: produce() throws, and nothing is handed to the produce of
\* node-rdkafka, when the key or the value that is to be serialized does not
\* conform to its schema (a field of another type, or a field missing).
C23_InvalidDataThrows ==
  (Produced /\ (NotConforming(client.key) \/ NotConforming(client.value))) =>
    client.out.kind = "throw"

\* the value has its long as a string, the key is a valid record
C23_Witness ==
  /\ Produced
  /\ client.revision = "part_001"
  /\ NotConforming(client.value)
  /\ Has(client.value, "long") /\ Get(client.value, "long").t = "string"
  /\ client.key = PlainRecord /\ ~NotConforming(client.key)
  /\ client.out.kind = "throw"

\* A part of a consumed message that the wire format cannot decode: without
\* the magic byte, shorter than the header, with a schema id the catalog
\* did not hold, or with a payload that ends before its value does.
Undecodable(part) ==
  /\ part.t = "buffer"
  /\ \/ part.v = << >>
     \/ part.v[1] # MAGIC_BYTE
     \/ Len(part.v) < 5
     \/ readInt32BE(part.v, 1) \notin DOMAIN client.cat.schemaTypeById
     \/ TypeRead(ById(client.cat)[readInt32BE(part.v, 1)], part.v, 5).offset > Len(part.v)

\* C24: a consumed message is delivered once; a key or value that cannot be
\* decoded is replaced by its JSON-parsed content, or by its string when it
\* is no JSON; a value that can be decoded is decoded whatever the key was.
C24_UndecodableIsDelivered ==
  (Consumed /\ client.cb[1] = "returns") =>
    /\ client.out.delivered = 1
    /\ Undecodable(client.message.key) => client.out.parsedKey = JsonOrText(client.message.key)
    /\ Undecodable(client.message.value) => client.out.parsed = JsonOrText(client.message.value)
    /\ (Undecodable(client.message.key) /\ client.message.value.t = "buffer"
          /\ ~Undecodable(client.message.value)) =>
         client.out.parsed.kind = "avro" /\ client.out.schemaId.kind = "value"

\* C31: the callback for "data" is called once for a message, whether the
\* call returns or throws.
C31_CallbackOnce == Consumed => client.out.delivered = 1

\* The key or value carries an __id whose schema the catalog holds, and
\* conforms to that schema.
EncodableById(data) ==
  /\ Truthy(data)
  /\ Has(data, "__id")
  /\ SchemaOf(data).found
  /\ ~NotConforming(data)

\* What was handed is the data in the wire format, written with the schema
\* of its __id and with that id in the header.
SentWithId(data, sent) ==
  /\ sent.kind = "value"
  /\ Len(sent.v) >= 5
  /\ sent.v[1] = MAGIC_BYTE
  /\ readInt32BE(sent.v, 1) = Get(data, "__id").n
  /\ SubSeq(sent.v, 6, Len(sent.v)) =
       TypeWrite(AvroType(SchemaOf(data).v), ToAvro(AvroType(SchemaOf(data).v), data))

\* C32: a key or value with an __id that names a schema of the by-id index
\* is encoded with that schema, and the schema id of the message header is
\* that __id.
C32_IdWrittenInHeader ==
  (Produced /\ client.out.kind = "value") =>
    /\ EncodableById(client.key) => SentWithId(client.key, client.out.v.sendKey)
    /\ EncodableById(client.value) => SentWithId(client.value, client.out.v.sendValue)

\* The step is a produce call or a consumed message.
ClientStep == client' # client

\* C26: a produce call and a consumed message, with their lookups by subject
\* and by id, their encoding and decoding, change none of the catalog's
\* fields and start no request.
C26_LookupsArePure ==
  [][ClientStep => (sr' = sr /\ run' = run /\ nruns' = nruns)]_vars

\* a value was decoded by its id while a key was not; a value was encoded
\* by its subject
C26_Witness ==
  \/ /\ Consumed
     /\ client.out.parsed.kind = "avro"
     /\ client.out.parsedKey.kind = "text"
  \/ /\ Produced
     /\ client.out.kind = "value"
     /\ client.out.v.sendValue.kind = "value"
     /\ client.out.v.sendValue.v[1] = MAGIC_BYTE
     /\ Len(client.out.v.sendValue.v) > 5

====
